---------------------------- MODULE Spec2Model ----------------------------
(***************************************************************************)
(* Reconciliation passes of the two BIG-IP modules of this repository:     *)
(*   library/bigip_node.py            (node, iControl REST)                *)
(*   library/_bigip_virtual_server.py (virtual server, iControl SOAP)      *)
(* A pass is a sequence of device calls; every device call is one step, so *)
(* that another actor on the same device can act between two calls.        *)
(***************************************************************************)
EXTENDS Integers, Sequences, FiniteSets, TLC

(***************************************************************************)
(* Bounds of the model.                                                    *)
(***************************************************************************)
\* largest quorum a caller supplies
MaxQuorum == 1
\* passes run one after the other with the same module parameters
MaxPasses == 2
\* actions of another actor on the same device during a behaviour
MaxRaces == 1
\* device calls that fail with an opaque error during a behaviour
MaxFaults == 1

(***************************************************************************)
(* Values.  Python's None of a string-valued field is NONE; an optional    *)
(* integer is the empty tuple or a one-element tuple.                      *)
(***************************************************************************)
NONE == "<None>"
NoInt == <<>>
SomeInt(n) == <<n>>

(***************************************************************************)
(* Monitor expressions.  A string is the sequence of its whitespace        *)
(* separated words; a word is a token [k, v]:                              *)
(*   "fq"   /Common/<v>      a fully qualified monitor name                *)
(*   "bare" <v>              a monitor name without partition              *)
(*   "min" "of" "{" "}" "and" "default"   the literal word                 *)
(*   "num"  the decimal integer v;  "None"  the text None                  *)
(* The raw value of Parameters._values['monitors'] is None, a list (module *)
(* parameter of type list) or a string (device attribute, or a rendered    *)
(* change).                                                                *)
(***************************************************************************)
Tok(k, v) == [k |-> k, v |-> v]
FQ(i) == Tok("fq", i)
Bare(i) == Tok("bare", i)
W(k) == Tok(k, 0)

NoneVal == [tag |-> "none", val |-> <<>>]
ListVal(l) == [tag |-> "list", val |-> l]
StrVal(s) == [tag |-> "str", val |-> s]

RECURSIVE SelectToks(_, _)
SelectToks(s, kinds) ==
    IF s = <<>> THEN <<>>
    ELSE IF Head(s).k \in kinds
         THEN <<Head(s)>> \o SelectToks(Tail(s), kinds)
         ELSE SelectToks(Tail(s), kinds)

\* re.findall(r'/\w+/[^\s}]+', s): the fully qualified names of s, in order
findall_names(s) == SelectToks(s, {"fq"})

\* re.search(r'min\s+\d+\s+of', s)
search_min_of(s) ==
    \E i \in 1..(Len(s) - 2) :
        s[i].k = "min" /\ s[i + 1].k = "num" /\ s[i + 2].k = "of"

\* the quorum group of re.search(r'min\s+(?P<quorum>\d+)\s+of', s)
match_quorum(s) ==
    LET i == CHOOSE i \in 1..(Len(s) - 2) :
                 s[i].k = "min" /\ s[i + 1].k = "num" /\ s[i + 2].k = "of"
    IN  s[i + 1].v

RECURSIVE JoinWith(_, _)
\* sep.join(l) for a list of words and a separator that is a list of words
JoinWith(l, sep) ==
    IF Len(l) <= 1 THEN l
    ELSE <<Head(l)>> \o sep \o JoinWith(Tail(l), sep)

\* '%s' % quorum
FormatQuorum(q) == IF q = NoInt THEN W("None") ELSE Tok("num", q[1])

(***************************************************************************)
(* Parameters (bigip_node.py).  A Parameters object is a record of its     *)
(* _values; a key never set reads None (defaultdict).                      *)
(***************************************************************************)
NodeKind == "tm:ltm:node:nodestate"
PoolKind == "tm:ltm:pool:poolstate"

EmptyParameters ==
    [kind |-> NONE, monitors |-> NoneVal, monitor_type |-> NONE,
     quorum |-> NoInt, description |-> NONE, state |-> NONE,
     session |-> NONE, address |-> NONE, fqdn |-> NONE,
     is_offline |-> FALSE]

\* Parameters._fqdn_name, partition Common
fqdn_name(x) == IF x.k = "bare" THEN FQ(x.v) ELSE x

\* Parameters.monitors_list: re.findall raises TypeError on a list, and the
\* handler returns the list itself
monitors_list(p) ==
    IF p.monitors.tag = "none" THEN <<>>
    ELSE IF p.monitors.tag = "list" THEN p.monitors.val
    ELSE findall_names(p.monitors.val)

\* Parameters.quorum: parsed from the expression only for kind
\* tm:ltm:pool:poolstate, otherwise the stored value
quorum(p) ==
    IF p.kind = PoolKind
    THEN IF p.monitors.tag # "str" THEN NoInt
         ELSE IF search_min_of(p.monitors.val)
              THEN SomeInt(match_quorum(p.monitors.val))
              ELSE NoInt
    ELSE p.quorum

\* Parameters.monitor_type: derived from the expression for a device node,
\* otherwise the stored value
monitor_type(p) ==
    IF p.kind = NodeKind
    THEN IF p.monitors.tag = "none" THEN NONE
         ELSE IF p.monitors.tag = "str" /\ search_min_of(p.monitors.val)
              THEN "m_of_n" ELSE "and_list"
    ELSE p.monitor_type

\* Parameters.monitors: the expression string rendered from monitors_list
monitors(p) ==
    IF p.monitors.tag = "none" THEN NoneVal
    ELSE LET ms == [i \in 1..Len(monitors_list(p)) |->
                       fqdn_name(monitors_list(p)[i])]
         IN  IF monitor_type(p) = "m_of_n"
             THEN StrVal(<<W("min"), FormatQuorum(quorum(p)), W("of"), W("{")>>
                         \o ms \o <<W("}")>>)
             ELSE StrVal(JoinWith(ms, <<W("and")>>))

\* Parameters.api_params: the api_attributes that are not None
api_params(p) ==
    [monitor |-> monitors(p), description |-> p.description,
     address |-> p.address, fqdn |-> p.fqdn,
     session |-> p.session, state |-> p.state]


(***************************************************************************)
(* Difference (bigip_node.py).  A comparison may update want; each         *)
(* operator returns the updated want, the change (None: no change) and the *)
(* message of the F5ModuleError it raises (NONE: it returns).              *)
(***************************************************************************)
\* a Difference.monitor_type without the check of the monitors that exist
Diff_monitor_type_unchecked_downgrade(want, have) ==
    LET w1 == IF monitor_type(want) = NONE
              THEN [want EXCEPT !.monitor_type = monitor_type(have)]
              ELSE want
        w2 == IF quorum(w1) = NoInt
              THEN [w1 EXCEPT !.quorum = quorum(have)]
              ELSE w1
        w3 == [w2 EXCEPT !.monitor_type = "and_list"]
    IN  IF monitor_type(w2) = "m_of_n" /\ quorum(w2) = NoInt
        THEN [want |-> w2, change |-> NONE,
              err |-> "Quorum value must be specified with monitor_type 'm_of_n'."]
        ELSE IF monitor_type(w2) = "single"
        THEN IF Len(monitors_list(w2)) > 1
             THEN [want |-> w2, change |-> NONE,
                   err |-> "When using a 'monitor_type' of 'single', only one monitor may be provided."]
             ELSE [want |-> w3,
                   change |-> IF monitor_type(w3) # monitor_type(have)
                              THEN monitor_type(w3) ELSE NONE,
                   err |-> NONE]
        ELSE [want |-> w2,
              change |-> IF monitor_type(w2) # monitor_type(have)
                         THEN monitor_type(w2) ELSE NONE,
              err |-> NONE]


\* Difference.monitor_type
Diff_monitor_type(want, have) ==
    LET w1 == IF monitor_type(want) = NONE
              THEN [want EXCEPT !.monitor_type = monitor_type(have)]
              ELSE want
        w2 == IF quorum(w1) = NoInt
              THEN [w1 EXCEPT !.quorum = quorum(have)]
              ELSE w1
        w3 == [w2 EXCEPT !.monitor_type = "and_list"]
    IN  IF monitor_type(w2) = "m_of_n" /\ quorum(w2) = NoInt
        THEN [want |-> w2, change |-> NONE,
              err |-> "Quorum value must be specified with monitor_type 'm_of_n'."]
        ELSE IF monitor_type(w2) = "single"
        THEN IF Len(monitors_list(w2)) > 1
             THEN [want |-> w2, change |-> NONE,
                   err |-> "When using a 'monitor_type' of 'single', only one monitor may be provided."]
             ELSE IF Len(monitors_list(have)) > 1 /\ Len(monitors_list(w2)) = 0
             THEN [want |-> w2, change |-> NONE,
                   err |-> "A single monitor must be specified if more than one monitor currently exists on your pool."]
             ELSE [want |-> w3,
                   change |-> IF monitor_type(w3) # monitor_type(have)
                              THEN monitor_type(w3) ELSE NONE,
                   err |-> NONE]
        ELSE [want |-> w2,
              change |-> IF monitor_type(w2) # monitor_type(have)
                         THEN monitor_type(w2) ELSE NONE,
              err |-> NONE]

\* Difference.__default for 'quorum' (Difference has no quorum property)
Diff_quorum(want, have) ==
    IF quorum(want) # quorum(have) THEN quorum(want) ELSE NoInt

\* Difference.monitors.  With an empty want.monitors_list the assignment
\* want.monitors = have.monitors_list raises AttributeError (the property
\* has no setter), which Difference.compare catches and answers with
\* __default('monitors'): want.monitors when it differs from have.monitors.
Diff_monitors(want, have) ==
    LET w1 == IF monitor_type(want) = NONE
              THEN [want EXCEPT !.monitor_type = monitor_type(have)]
              ELSE want
    IN  IF monitors_list(w1) = <<>>
        THEN [want |-> w1,
              change |-> IF monitors(w1) # monitors(have)
                         THEN monitors(w1) ELSE NoneVal,
              err |-> NONE]
        ELSE IF (monitors(w1).tag = "none" \/ monitors(w1).val = <<>>)
                /\ monitor_type(w1) # NONE
        THEN [want |-> w1, change |-> NoneVal,
              err |-> "The 'monitors' parameter cannot be empty when 'monitor_type' parameter is specified"]
        ELSE [want |-> w1,
              change |-> IF monitors(w1) # monitors(have)
                         THEN monitors(w1) ELSE NoneVal,
              err |-> NONE]

\* Difference.__default for 'description'
Diff_description(want, have) ==
    IF want.description # have.description THEN want.description ELSE NONE

NoPair == [session |-> NONE, state |-> NONE]

\* Difference.state: the (session, state) pair to send, NoPair for None
Diff_state(want, have) ==
    IF want.state \in {"present", "enabled"}
    THEN IF have.session # "user-enabled"
         THEN [session |-> "user-enabled", state |-> "user-up"]
         ELSE NoPair
    ELSE IF want.state = "disabled"
    THEN IF have.session # "user-disabled" \/ have.state = "user-down"
         THEN [session |-> "user-disabled", state |-> "user-up"]
         ELSE NoPair
    ELSE IF want.state = "offline"
    THEN IF have.state # "user-down"
         THEN [session |-> "user-disabled", state |-> "user-down"]
         ELSE NoPair
    ELSE NoPair

\* an _update_changed_options whose updatables include address
update_changed_options_with_address(want, have) ==
    LET mt == Diff_monitor_type(want, have)
        q  == Diff_quorum(mt.want, have)
        ms == Diff_monitors(mt.want, have)
        d  == Diff_description(ms.want, have)
        st == Diff_state(ms.want, have)
        ch == [EmptyParameters EXCEPT
                 !.monitor_type = mt.change, !.quorum = q,
                 !.monitors = ms.change, !.description = d,
                 !.session = st.session, !.state = st.state,
                 !.address = IF want.address # have.address
                             THEN want.address ELSE NONE]
    IN  IF mt.err # NONE
        THEN [want |-> mt.want, changes |-> EmptyParameters,
              result |-> FALSE, err |-> mt.err]
        ELSE IF ms.err # NONE
        THEN [want |-> ms.want, changes |-> EmptyParameters,
              result |-> FALSE, err |-> ms.err]
        ELSE [want |-> ms.want, changes |-> ch,
              result |-> ch # EmptyParameters, err |-> NONE]


\* ModuleManager._update_changed_options: compares Parameters.updatables in
\* order; the Changes built from the changed dict, whether it is non-empty,
\* the updated want and the error raised on the way
update_changed_options(want, have) ==
    LET mt == Diff_monitor_type(want, have)
        q  == Diff_quorum(mt.want, have)
        ms == Diff_monitors(mt.want, have)
        d  == Diff_description(ms.want, have)
        st == Diff_state(ms.want, have)
        ch == [EmptyParameters EXCEPT
                 !.monitor_type = mt.change, !.quorum = q,
                 !.monitors = ms.change, !.description = d,
                 !.session = st.session, !.state = st.state]
    IN  IF mt.err # NONE
        THEN [want |-> mt.want, changes |-> EmptyParameters,
              result |-> FALSE, err |-> mt.err]
        ELSE IF ms.err # NONE
        THEN [want |-> ms.want, changes |-> EmptyParameters,
              result |-> FALSE, err |-> ms.err]
        ELSE [want |-> ms.want, changes |-> ch,
              result |-> ch # EmptyParameters, err |-> NONE]

\* a creation that requires neither address nor fqdn
no_required_creation_vars(want) == NONE

\* ModuleManager._check_required_creation_vars: the error raised, or NONE
check_required_creation_vars(want) ==
    IF want.address = NONE /\ want.fqdn = NONE
    THEN "At least one of 'address' or 'fqdn' is required when creating a node"
    ELSE IF want.address # NONE /\ want.fqdn # NONE
    THEN "Only one of 'address' or 'fqdn' can be provided when creating a node"
    ELSE NONE

\* the want left by _check_required_creation_vars when it returns
creation_vars(want) ==
    IF want.fqdn # NONE THEN [want EXCEPT !.address = "any6"] ELSE want

\* a munge that does not register is_offline for the state offline
munge_without_offline(want) ==
    IF want.state \in {"present", "enabled"}
    THEN [want EXCEPT !.session = "user-enabled", !.state = "user-up"]
    ELSE IF want.state = "disabled"
    THEN [want EXCEPT !.session = "user-disabled", !.state = "user-up"]
    ELSE [want EXCEPT !.session = "user-disabled", !.state = "user-down"]

\* ModuleManager._munge_creation_state_for_device
munge_creation_state_for_device(want) ==
    IF want.state \in {"present", "enabled"}
    THEN [want EXCEPT !.session = "user-enabled", !.state = "user-up"]
    ELSE IF want.state = "disabled"
    THEN [want EXCEPT !.session = "user-disabled", !.state = "user-up"]
    ELSE [want EXCEPT !.session = "user-disabled", !.state = "user-down",
                      !.is_offline = TRUE]

\* ModuleManager._set_changed_options: the returnables of want that are not
\* None
set_changed_options(want) ==
    [EmptyParameters EXCEPT
       !.monitor_type = monitor_type(want), !.quorum = quorum(want),
       !.monitors = monitors(want), !.description = want.description,
       !.fqdn = want.fqdn, !.session = want.session, !.state = want.state]

(***************************************************************************)
(* State of a node pass (ModuleManager of bigip_node.py) and of the device *)
(* node it manages.                                                        *)
(***************************************************************************)
VARIABLES
    nparams,    \* client.module.params
    ncheck,     \* client.check_mode
    want,       \* ModuleManager.want
    have,       \* ModuleManager.have
    changes,    \* ModuleManager.changes
    node,       \* the node on the device
    npc,        \* where the pass is
    nresult,    \* what the pass ended with
    ncalls,     \* the mutating device calls of this pass, in order
    nmutated,   \* whether a call of this pass changed the device
    res_state,  \* resource.state held by create_on_device
    npass,      \* number of this pass
    nprev,      \* how the pass before this one began and ended
    node0,      \* the device node when this pass began
    nraces,     \* actions of another actor so far
    nfaults     \* failed device calls so far

nvars == <<nparams, ncheck, want, have, changes, node, npc, nresult, ncalls,
           nmutated, res_state, npass, nprev, node0, nraces, nfaults>>

\* monitor names known to the device
MonitorA == FQ(1)
MonitorB == FQ(2)

\* the module parameters of a node task (ArgumentSpec)
NodeStates == {"absent", "present", "enabled", "disabled", "offline"}
NodeMonitorLists ==
    {NoneVal, ListVal(<<>>), ListVal(<<MonitorA>>),
     ListVal(<<MonitorA, Bare(2)>>)}
NodeMonitorTypes == {NONE, "and_list", "m_of_n", "single"}
NodeQuorums == {NoInt} \cup {SomeInt(q) : q \in 1..MaxQuorum}
NodeParams ==
    [state : NodeStates, description : {NONE, "d1"},
     monitors : NodeMonitorLists, monitor_type : NodeMonitorTypes,
     quorum : NodeQuorums, address : {NONE, "10.0.0.1"},
     fqdn : {NONE, "a.example"}]

\* Parameters(client.module.params)
WantOf(params) ==
    [EmptyParameters EXCEPT
       !.state = params.state, !.description = params.description,
       !.monitors = params.monitors, !.monitor_type = params.monitor_type,
       !.quorum = params.quorum, !.address = params.address,
       !.fqdn = params.fqdn]

\* the (session, state) pairs a device node is found in
DevicePairs ==
    {[session |-> "user-enabled", state |-> "user-up"],
     [session |-> "user-disabled", state |-> "user-up"],
     [session |-> "user-disabled", state |-> "user-down"],
     [session |-> "monitor-enabled", state |-> "up"]}

\* the monitor expressions a device node is found with
DeviceMonitors ==
    {<<W("default")>>,
     <<MonitorA>>,
     <<MonitorA, W("and"), MonitorB>>,
     <<W("min"), Tok("num", 1), W("of"), W("{"), MonitorA, MonitorB, W("}")>>}

NoNode ==
    [exists |-> FALSE, monitor |-> <<>>, description |-> NONE,
     session |-> NONE, state |-> NONE, address |-> NONE, fqdn |-> NONE]

DeviceNodes ==
    {NoNode} \cup
    {[exists |-> TRUE, monitor |-> m, description |-> d,
      session |-> pr.session, state |-> pr.state,
      address |-> "10.0.0.1", fqdn |-> NONE] :
        m \in DeviceMonitors, d \in {NONE, "d0"}, pr \in DevicePairs}

\* Parameters(resource.attrs) of read_current_from_device
HaveOf(n) ==
    [EmptyParameters EXCEPT
       !.kind = NodeKind, !.monitors = StrVal(n.monitor),
       !.description = n.description, !.session = n.session,
       !.state = n.state, !.address = n.address, !.fqdn = n.fqdn]

NoParams == api_params(EmptyParameters)
Call(op, params) == [op |-> op, params |-> params]

Running == [status |-> "running", changed |-> FALSE, msg |-> NONE]
ExitJson(changed) == [status |-> "ok", changed |-> changed, msg |-> NONE]
FailJson(msg) == [status |-> "failed", changed |-> FALSE, msg |-> msg]

NoPrev == [status |-> NONE, changed |-> FALSE, check |-> FALSE,
           node0 |-> NoNode, mutated |-> FALSE, calls |-> <<>>]

\* The tasks and devices a behaviour starts from.  A task with state absent
\* carries no other parameter (absent() reads none); a task against an
\* existing node carries no fqdn (only create() reads it).
NodeTask(params, n) ==
    /\ params.state = "absent" =>
          params = [state |-> "absent", description |-> NONE,
                    monitors |-> NoneVal, monitor_type |-> NONE,
                    quorum |-> NoInt, address |-> NONE, fqdn |-> NONE]
    /\ n.exists => params.fqdn = NONE

NodeInit ==
    /\ nparams \in NodeParams
    /\ ncheck \in BOOLEAN
    /\ node \in DeviceNodes
    /\ NodeTask(nparams, node)
    /\ want = WantOf(nparams)
    /\ have = EmptyParameters
    /\ changes = EmptyParameters
    /\ npc = "start"
    /\ nresult = Running
    /\ ncalls = <<>>
    /\ nmutated = FALSE
    /\ res_state = NONE
    /\ npass = 1
    /\ nprev = NoPrev
    /\ node0 = node
    /\ nraces = 0
    /\ nfaults = 0

(***************************************************************************)
(* The device's side of the node calls.                                    *)
(***************************************************************************)
\* resource.modify(**params): the attributes sent replace the stored ones
DeviceModify(n, params) ==
    [n EXCEPT
       !.monitor = IF params.monitor.tag = "none" THEN @ ELSE params.monitor.val,
       !.description = IF params.description = NONE THEN @ ELSE params.description,
       !.session = IF params.session = NONE THEN @ ELSE params.session,
       !.state = IF params.state = NONE THEN @ ELSE params.state]

\* the states in which the device may hold a node just created with params:
\* the state sent; for user-down, which does not work at creation, also
\* user-up; for an fqdn node, fqdn-checking until the name is resolved
DeviceCreateStates(params) ==
    {params.state}
    \cup (IF params.state = "user-down" THEN {"user-up"} ELSE {})
    \cup (IF params.fqdn # NONE THEN {"fqdn-checking"} ELSE {})

\* nodes.node.create(name, partition, **params)
DeviceCreate(params, st) ==
    [exists |-> TRUE,
     monitor |-> IF params.monitor.tag = "none" THEN <<W("default")>>
                 ELSE params.monitor.val,
     description |-> params.description,
     session |-> params.session, state |-> st,
     address |-> params.address, fqdn |-> params.fqdn]

\* a run that ignores check mode
NotCheckMode == FALSE

\* self.client.check_mode
client_check_mode == ncheck

NodeEnd(result) ==
    /\ npc' = "done"
    /\ nresult' = result

\* a device call fails with an error this module does not classify
NodeFault(msg) ==
    /\ nfaults < MaxFaults
    /\ nfaults' = nfaults + 1
    /\ NodeEnd(FailJson(msg))

(***************************************************************************)
(* The steps of a node pass.                                               *)
(***************************************************************************)
\* exec_module, state absent: absent() asks exists(); remove() returns True
\* in check mode before any device call
NodeAbsentExists ==
    /\ npc = "start"
    /\ want.state = "absent"
    /\ IF ~node.exists THEN NodeEnd(ExitJson(FALSE))
       ELSE IF client_check_mode THEN NodeEnd(ExitJson(TRUE))
       ELSE npc' = "remove" /\ UNCHANGED nresult
    /\ UNCHANGED <<nparams, ncheck, want, have, changes, node, ncalls, nmutated,
                   res_state, npass, nprev, node0, nraces, nfaults>>

\* exec_module, other states: present() asks exists(); when the node is
\* absent create() validates, munges the state and, in check mode, returns
NodePresentExists ==
    /\ npc = "start"
    /\ want.state # "absent"
    /\ IF node.exists
       THEN /\ npc' = "read"
            /\ UNCHANGED <<want, changes, nresult>>
       ELSE IF check_required_creation_vars(want) # NONE
       THEN /\ NodeEnd(FailJson(check_required_creation_vars(want)))
            /\ UNCHANGED <<want, changes>>
       ELSE /\ want' = munge_creation_state_for_device(creation_vars(want))
            /\ changes' = set_changed_options(want')
            /\ IF client_check_mode THEN NodeEnd(ExitJson(TRUE))
               ELSE npc' = "create" /\ UNCHANGED nresult
    /\ UNCHANGED <<nparams, ncheck, have, node, ncalls, nmutated, res_state, npass,
                   nprev, node0, nraces, nfaults>>

\* update(): read_current_from_device, should_update, check mode
NodeRead ==
    /\ npc = "read"
    /\ IF ~node.exists
       THEN /\ NodeEnd(FailJson("load: not found"))
            /\ UNCHANGED <<want, have, changes>>
       ELSE LET r == update_changed_options(want, HaveOf(node))
            IN  /\ have' = HaveOf(node)
                /\ want' = r.want
                /\ changes' = r.changes
                /\ IF r.err # NONE THEN NodeEnd(FailJson(r.err))
                   ELSE IF ~r.result THEN NodeEnd(ExitJson(FALSE))
                   ELSE IF client_check_mode THEN NodeEnd(ExitJson(TRUE))
                   ELSE npc' = "update" /\ UNCHANGED nresult
    /\ UNCHANGED <<nparams, ncheck, node, ncalls, nmutated, res_state, npass, nprev,
                   node0, nraces, nfaults>>

\* update(): update_on_device, then the offline call or return True
NodeUpdateOnDevice ==
    /\ npc = "update"
    /\ UNCHANGED <<nparams, ncheck, want, have, changes, res_state, npass,
                   nprev, node0, nraces>>
    /\ \/ /\ ~node.exists
          /\ NodeEnd(FailJson("load: not found"))
          /\ UNCHANGED <<node, ncalls, nmutated, nfaults>>
       \/ /\ node.exists
          /\ NodeFault("modify: device error")
          /\ ncalls' = Append(ncalls, Call("modify", api_params(changes)))
          /\ UNCHANGED <<node, nmutated>>
       \/ /\ node.exists
          /\ node' = DeviceModify(node, api_params(changes))
          /\ nmutated' = (nmutated \/ DeviceModify(node, api_params(changes)) # node)
          /\ ncalls' = Append(ncalls, Call("modify", api_params(changes)))
          /\ IF want.state = "offline"
             THEN npc' = "offline" /\ UNCHANGED nresult
             ELSE NodeEnd(ExitJson(TRUE))
          /\ UNCHANGED nfaults

OfflinePair ==
    [NoParams EXCEPT !.session = "user-disabled", !.state = "user-down"]

\* update_node_offline_on_device, then return True
NodeOfflineOnDevice ==
    /\ npc = "offline"
    /\ UNCHANGED <<nparams, ncheck, want, have, changes, res_state, npass,
                   nprev, node0, nraces>>
    /\ \/ /\ ~node.exists
          /\ NodeEnd(FailJson("load: not found"))
          /\ UNCHANGED <<node, ncalls, nmutated, nfaults>>
       \/ /\ node.exists
          /\ NodeFault("modify: device error")
          /\ ncalls' = Append(ncalls, Call("modify", OfflinePair))
          /\ UNCHANGED <<node, nmutated>>
       \/ /\ node.exists
          /\ node' = DeviceModify(node, OfflinePair)
          /\ nmutated' = (nmutated \/ DeviceModify(node, OfflinePair) # node)
          /\ ncalls' = Append(ncalls, Call("modify", OfflinePair))
          /\ NodeEnd(ExitJson(TRUE))
          /\ UNCHANGED nfaults

\* create_on_device: the create call with want.api_params()
NodeCreateOnDevice ==
    /\ npc = "create"
    /\ ncalls' = Append(ncalls, Call("create", api_params(want)))
    /\ UNCHANGED <<nparams, ncheck, want, have, changes, npass, nprev,
                   node0, nraces>>
    /\ \/ /\ node.exists
          /\ NodeEnd(FailJson("create: already exists"))
          /\ UNCHANGED <<node, nmutated, res_state, nfaults>>
       \/ /\ ~node.exists
          /\ NodeFault("create: device error")
          /\ UNCHANGED <<node, nmutated, res_state>>
       \/ /\ ~node.exists
          /\ \E st \in DeviceCreateStates(api_params(want)) :
                /\ node' = DeviceCreate(api_params(want), st)
                /\ res_state' = st
          /\ nmutated' = TRUE
          /\ npc' = "wait"
          /\ UNCHANGED <<nresult, nfaults>>

\* _wait_for_fqdn_checks: one test of resource.state; while it is
\* fqdn-checking, resource.refresh()
NodeWaitForFqdnChecks ==
    /\ npc = "wait"
    /\ IF res_state = "fqdn-checking"
       THEN IF node.exists
            THEN /\ res_state' = node.state
                 /\ npc' = "sleep"
                 /\ UNCHANGED nresult
            ELSE /\ NodeEnd(FailJson("refresh: not found"))
                 /\ UNCHANGED res_state
       ELSE /\ npc' = "created"
            /\ UNCHANGED <<res_state, nresult>>
    /\ UNCHANGED <<nparams, ncheck, want, have, changes, node, ncalls, nmutated, npass,
                   nprev, node0, nraces, nfaults>>

\* _wait_for_fqdn_checks: time.sleep(1), then the next turn of the loop
NodeSleep ==
    /\ npc = "sleep"
    /\ npc' = "wait"
    /\ UNCHANGED <<nparams, ncheck, want, have, changes, node, nresult, ncalls,
                   nmutated, res_state, npass, nprev, node0, nraces, nfaults>>

\* a create() that does not ask exists() after the create call
NodeCreatedUnverified ==
    /\ npc = "created"
    /\ IF want.is_offline THEN npc' = "offline" /\ UNCHANGED nresult
       ELSE NodeEnd(ExitJson(TRUE))
    /\ UNCHANGED <<nparams, ncheck, want, have, changes, node, ncalls, nmutated,
                   res_state, npass, nprev, node0, nraces, nfaults>>

\* create(): exists() after the create call, then the offline call or True
NodeCreated ==
    /\ npc = "created"
    /\ IF ~node.exists THEN NodeEnd(FailJson("Failed to create the node"))
       ELSE IF want.is_offline THEN npc' = "offline" /\ UNCHANGED nresult
       ELSE NodeEnd(ExitJson(TRUE))
    /\ UNCHANGED <<nparams, ncheck, want, have, changes, node, ncalls, nmutated,
                   res_state, npass, nprev, node0, nraces, nfaults>>

\* remove_from_device: load, then delete
NodeRemoveFromDevice ==
    /\ npc = "remove"
    /\ UNCHANGED <<nparams, ncheck, want, have, changes, res_state, npass,
                   nprev, node0, nraces>>
    /\ \/ /\ ~node.exists
          /\ NodeEnd(FailJson("load: not found"))
          /\ UNCHANGED <<node, ncalls, nmutated, nfaults>>
       \/ /\ node.exists
          /\ NodeFault("delete: device error")
          /\ ncalls' = Append(ncalls, Call("delete", NoParams))
          /\ UNCHANGED <<node, nmutated>>
       \/ /\ node.exists
          /\ node' = NoNode
          /\ nmutated' = (nmutated \/ NoNode # node)
          /\ ncalls' = Append(ncalls, Call("delete", NoParams))
          /\ npc' = "removed"
          /\ UNCHANGED <<nresult, nfaults>>

\* remove(): exists() after the delete call
NodeRemoved ==
    /\ npc = "removed"
    /\ IF node.exists THEN NodeEnd(FailJson("Failed to delete the node."))
       ELSE NodeEnd(ExitJson(TRUE))
    /\ UNCHANGED <<nparams, ncheck, want, have, changes, node, ncalls, nmutated,
                   res_state, npass, nprev, node0, nraces, nfaults>>

\* after an undisturbed pass the task is run again, not in check mode, with
\* the same module parameters
NodeNextPass ==
    /\ npc = "done"
    /\ npass < MaxPasses
    /\ nraces = 0
    /\ nfaults = 0
    /\ npass' = npass + 1
    /\ nprev' = [status |-> nresult.status, changed |-> nresult.changed,
                 check |-> ncheck, node0 |-> node0, mutated |-> nmutated,
                 calls |-> ncalls]
    /\ ncheck' = FALSE
    /\ want' = WantOf(nparams)
    /\ have' = EmptyParameters
    /\ changes' = EmptyParameters
    /\ npc' = "start"
    /\ nresult' = Running
    /\ ncalls' = <<>>
    /\ nmutated' = FALSE
    /\ res_state' = NONE
    /\ node0' = node
    /\ UNCHANGED <<nparams, node, nraces, nfaults>>

(***************************************************************************)
(* The rest of the world: another actor on the same device, and the        *)
(* device's own fqdn resolution.                                           *)
(***************************************************************************)
\* another actor creates the node, at an address of its own
OtherCreatesNode ==
    /\ npc \notin {"done", "idle"}
    /\ nraces < MaxRaces
    /\ ~node.exists
    /\ node' = [exists |-> TRUE, monitor |-> <<W("default")>>,
                description |-> NONE, session |-> "user-enabled",
                state |-> "user-up", address |-> "10.0.0.2", fqdn |-> NONE]
    /\ nraces' = nraces + 1
    /\ UNCHANGED <<nparams, ncheck, want, have, changes, npc, nresult,
                   ncalls, nmutated, res_state, npass, nprev, node0, nfaults>>

OtherDeletesNode ==
    /\ npc \notin {"done", "idle"}
    /\ nraces < MaxRaces
    /\ node.exists
    /\ node' = NoNode
    /\ nraces' = nraces + 1
    /\ UNCHANGED <<nparams, ncheck, want, have, changes, npc, nresult,
                   ncalls, nmutated, res_state, npass, nprev, node0, nfaults>>

DeviceFqdnResolved ==
    /\ node.exists
    /\ node.state = "fqdn-checking"
    /\ node' = [node EXCEPT !.state = "user-up"]
    /\ UNCHANGED <<nparams, ncheck, want, have, changes, npc, nresult,
                   ncalls, nmutated, res_state, npass, nprev, node0, nraces, nfaults>>


(***************************************************************************)
(* Virtual server (_bigip_virtual_server.py).  A name is [q, n]: n its     *)
(* text after the partition, q whether it is written /Common/n.  None is   *)
(* NoName, the empty string is EmptyName.                                  *)
(***************************************************************************)
Name(q, n) == [q |-> q, n |-> n]
NoName == Name(FALSE, NONE)
EmptyName == Name(FALSE, "")
Qualified(n) == Name(TRUE, n)
Relative(n) == Name(FALSE, n)

\* f5_utils.fq_name, partition Common
fq_name(name) ==
    IF name # NoName /\ ~name.q THEN Name(TRUE, name.n) ELSE name

\* f5_utils.fq_list_names
fq_list_names(l) ==
    IF l.tag = "none" THEN NoneVal
    ELSE ListVal([i \in 1..Len(l.val) |-> fq_name(l.val[i])])

Range(f) == {f[i] : i \in DOMAIN f}

\* x in l, for a list l
InList(x, l) == \E i \in DOMAIN l : l[i] = x

RECURSIVE FilterOut(_, _)
\* [x for x in l if x not in S]
FilterOut(l, S) ==
    IF l = <<>> THEN <<>>
    ELSE IF Head(l) \in S THEN FilterOut(Tail(l), S)
         ELSE <<Head(l)>> \o FilterOut(Tail(l), S)

RECURSIVE ListOf(_)
\* the members of a device list, in the order the device returns them
ListOf(S) ==
    IF S = {} THEN <<>>
    ELSE LET x == CHOOSE y \in S : TRUE
         IN  <<x>> \o ListOf(S \ {x})

\* STATES
STATES(state) ==
    IF state = "enabled" THEN "STATE_ENABLED" ELSE "STATE_DISABLED"

MaxPort == 65535

\* main: if 0 > port > 65535.  The chain is (0 > port) and (port > 65535);
\* for None, which orders below every integer (Python 2), it is
\* True and False
port_out_of_range(port) ==
    IF port = NoInt THEN FALSE
    ELSE 0 > port[1] /\ port[1] > MaxPort

(***************************************************************************)
(* The virtual server on the device, and the writes of the SOAP API.       *)
(***************************************************************************)
NoVS ==
    [exists |-> FALSE, address |-> NoName, port |-> NoInt,
     protocol |-> NONE, pool |-> EmptyName, description |-> "",
     snat_type |-> NONE, snat_pool |-> EmptyName, profiles |-> {},
     policies |-> {}, rules |-> {},
     vlan |-> [state |-> "STATE_DISABLED", vlans |-> {}],
     persistence |-> {}, fallback |-> EmptyName,
     enabled_state |-> NONE, route_state |-> NONE]

Write(op, arg) == [op |-> op, arg |-> arg]

\* LocalLB.VirtualServer.create: the object the device holds afterwards;
\* the device keeps names fully qualified
DeviceCreateVS(arg) ==
    [NoVS EXCEPT
       !.exists = TRUE, !.address = fq_name(arg.address), !.port = arg.port,
       !.protocol = arg.protocol,
       !.pool = IF arg.pool = NoName THEN EmptyName ELSE fq_name(arg.pool),
       !.snat_type = "SRC_TRANS_NONE",
       !.profiles = {fq_name(x) : x \in Range(arg.profiles)},
       !.enabled_state = "STATE_ENABLED",
       !.route_state = "STATE_DISABLED"]

\* the effect of one mutating call on the virtual server
ApplyWrite(v, w) ==
    CASE w.op = "create" -> DeviceCreateVS(w.arg)
      [] w.op = "delete_virtual_server" -> NoVS
      [] w.op = "remove_rule" -> [v EXCEPT !.rules = @ \ Range(w.arg)]
      [] w.op = "add_rule" -> [v EXCEPT !.rules = @ \cup Range(w.arg)]
      [] w.op = "remove_profile" -> [v EXCEPT !.profiles = @ \ Range(w.arg)]
      [] w.op = "add_profile" -> [v EXCEPT !.profiles = @ \cup Range(w.arg)]
      [] w.op = "remove_content_policy" ->
            [v EXCEPT !.policies = @ \ Range(w.arg)]
      [] w.op = "add_content_policy" ->
            [v EXCEPT !.policies = @ \cup Range(w.arg)]
      [] w.op = "set_vlan" ->
            [v EXCEPT !.vlan = [state |-> w.arg.state,
                                vlans |-> Range(w.arg.vlans)]]
      [] w.op = "set_source_address_translation_none" ->
            [v EXCEPT !.snat_type = "SRC_TRANS_NONE", !.snat_pool = EmptyName]
      [] w.op = "set_source_address_translation_automap" ->
            [v EXCEPT !.snat_type = "SRC_TRANS_AUTOMAP",
                      !.snat_pool = EmptyName]
      [] w.op = "set_source_address_translation_snat_pool" ->
            [v EXCEPT !.snat_type = "SRC_TRANS_SNATPOOL",
                      !.snat_pool = fq_name(w.arg)]
      [] w.op = "set_default_pool_name" -> [v EXCEPT !.pool = w.arg]
      [] w.op = "set_destination_v2" ->
            [v EXCEPT !.address = w.arg.address, !.port = w.arg.port]
      [] w.op = "set_enabled_state" -> [v EXCEPT !.enabled_state = w.arg]
      [] w.op = "set_description" -> [v EXCEPT !.description = w.arg]
      [] w.op = "remove_persistence_profile" ->
            [v EXCEPT !.persistence = @ \ Range(w.arg)]
      [] w.op = "add_persistence_profile" ->
            [v EXCEPT !.persistence = @ \cup Range(w.arg)]
      [] w.op = "set_fallback_persistence_profile" ->
            [v EXCEPT !.fallback = w.arg]
      [] w.op = "set_route_advertisement_state" ->
            [v EXCEPT !.route_state = w.arg]
      [] OTHER -> v

RECURSIVE ApplyWrites(_, _)
ApplyWrites(v, ws) ==
    IF ws = <<>> THEN v ELSE ApplyWrites(ApplyWrite(v, Head(ws)), Tail(ws))

RECURSIVE AnyEffect(_, _)
\* whether one of the writes ws, applied in order to v, changes it
AnyEffect(v, ws) ==
    IF ws = <<>> THEN FALSE
    ELSE ApplyWrite(v, Head(ws)) # v
         \/ AnyEffect(ApplyWrite(v, Head(ws)), Tail(ws))

(***************************************************************************)
(* The set_* functions.  Each reads the virtual server v as the device     *)
(* returns it and answers [writes, updated, err]: the mutating calls it    *)
(* issues in order, its return value, and the message of the error it      *)
(* raises after them (NONE: it returns).                                   *)
(***************************************************************************)
Done(writes, updated) == [writes |-> writes, updated |-> updated, err |-> NONE]

\* list(enumerate(rules_list)) as device rules
enumerate(l) == [i \in 1..Len(l) |-> [priority |-> i - 1, rule_name |-> l[i]]]

\* a set_rules that compares the rules by name, whatever their priority
set_rules_by_name(v, rules_list) ==
    IF rules_list.tag = "none" THEN Done(<<>>, FALSE)
    ELSE LET rules == enumerate(rules_list.val)
             to_add_rules ==
                SelectSeq(rules, LAMBDA x :
                    \A y \in v.rules : y.rule_name # x.rule_name)
             to_del_rules ==
                SelectSeq(ListOf(v.rules), LAMBDA y :
                    \A i \in DOMAIN rules : rules[i].rule_name # y.rule_name)
         IN  Done((IF Len(to_del_rules) > 0
                   THEN <<Write("remove_rule", to_del_rules)>> ELSE <<>>)
                  \o (IF Len(to_add_rules) > 0
                      THEN <<Write("add_rule", to_add_rules)>> ELSE <<>>),
                  Len(to_del_rules) > 0 \/ Len(to_add_rules) > 0)


set_rules(v, rules_list) ==
    IF rules_list.tag = "none" THEN Done(<<>>, FALSE)
    ELSE LET rules == enumerate(rules_list.val)
             to_add_rules == FilterOut(rules, v.rules)
             to_del_rules == FilterOut(ListOf(v.rules), Range(rules))
         IN  Done((IF Len(to_del_rules) > 0
                   THEN <<Write("remove_rule", to_del_rules)>> ELSE <<>>)
                  \o (IF Len(to_add_rules) > 0
                      THEN <<Write("add_rule", to_add_rules)>> ELSE <<>>),
                  Len(to_del_rules) > 0 \/ Len(to_add_rules) > 0)

\* a set_profiles that protects no profile from removal
set_profiles_unprotected(v, profiles_list, in_txn) ==
    IF profiles_list.tag = "none" THEN Done(<<>>, FALSE)
    ELSE LET to_add == FilterOut(profiles_list.val, v.profiles)
             to_del == FilterOut(ListOf(v.profiles), Range(profiles_list.val))
             writes == (IF Len(to_del) > 0
                        THEN <<Write("remove_profile", to_del)>> ELSE <<>>)
                       \o (IF Len(to_add) > 0
                           THEN <<Write("add_profile", to_add)>> ELSE <<>>)
             after == IF in_txn THEN v ELSE ApplyWrites(v, writes)
         IN  IF after.profiles = {}
             THEN [writes |-> writes, updated |-> FALSE,
                   err |-> "Virtual servers must has at least one profile"]
             ELSE Done(writes, Len(to_del) > 0 \/ Len(to_add) > 0)


ProtectedProfile == Qualified("tcp")

\* in_txn: the calls are queued in an open transaction, and get_profiles
\* after them returns what it returned before them
set_profiles(v, profiles_list, in_txn) ==
    IF profiles_list.tag = "none" THEN Done(<<>>, FALSE)
    ELSE LET to_add == FilterOut(profiles_list.val, v.profiles)
             to_del == FilterOut(ListOf(v.profiles),
                                 Range(profiles_list.val) \cup {ProtectedProfile})
             writes == (IF Len(to_del) > 0
                        THEN <<Write("remove_profile", to_del)>> ELSE <<>>)
                       \o (IF Len(to_add) > 0
                           THEN <<Write("add_profile", to_add)>> ELSE <<>>)
             after == IF in_txn THEN v ELSE ApplyWrites(v, writes)
         IN  IF after.profiles = {}
             THEN [writes |-> writes, updated |-> FALSE,
                   err |-> "Virtual servers must has at least one profile"]
             ELSE Done(writes, Len(to_del) > 0 \/ Len(to_add) > 0)

\* a set_policies that takes None for the empty list
set_policies_none_as_empty(v, policies_list) ==
    LET l == IF policies_list.tag = "none" THEN <<>> ELSE policies_list.val
        to_add == FilterOut(l, v.policies)
        to_del == FilterOut(ListOf(v.policies), Range(l))
    IN  Done((IF Len(to_del) > 0
              THEN <<Write("remove_content_policy", to_del)>> ELSE <<>>)
             \o (IF Len(to_add) > 0
                 THEN <<Write("add_content_policy", to_add)>> ELSE <<>>),
             Len(to_del) > 0 \/ Len(to_add) > 0)

set_policies(v, policies_list) ==
    IF policies_list.tag = "none" THEN Done(<<>>, FALSE)
    ELSE LET to_add == FilterOut(policies_list.val, v.policies)
             to_del == FilterOut(ListOf(v.policies), Range(policies_list.val))
         IN  Done((IF Len(to_del) > 0
                   THEN <<Write("remove_content_policy", to_del)>> ELSE <<>>)
                  \o (IF Len(to_add) > 0
                      THEN <<Write("add_content_policy", to_add)>> ELSE <<>>),
                  Len(to_del) > 0 \/ Len(to_add) > 0)

ALL == Relative("ALL")

\* a is "literal": equal text, and the same object when the interpreter
\* shares the two strings (same)
Is(a, literal, same) == a = literal /\ same

set_enabled_vlans(v, vlans_enabled_list, same) ==
    IF vlans_enabled_list.tag = "none" THEN Done(<<>>, FALSE)
    ELSE LET l == vlans_enabled_list.val
             current_vlans == v.vlan
         IN  IF InList(ALL, l)
             THEN IF Cardinality(current_vlans.vlans) > 0
                     \/ Is(current_vlans.state, "STATE_ENABLED", same)
                  THEN Done(<<Write("set_vlan", [state |-> "STATE_DISABLED",
                                                 vlans |-> <<>>])>>, TRUE)
                  ELSE Done(<<>>, FALSE)
             ELSE IF Is(current_vlans.state, "STATE_DISABLED", same)
             THEN Done(<<>>, FALSE)
             ELSE IF \E i \in DOMAIN l : l[i] \notin current_vlans.vlans
             THEN Done(<<Write("set_vlan", [state |-> "STATE_ENABLED",
                                            vlans |-> l])>>, TRUE)
             ELSE Done(<<>>, FALSE)

snat_settings_need_updating(snat, current_state, current_snat_pool) ==
    IF snat = Relative("None") \/ snat = Relative("Automap") THEN FALSE
    ELSE IF snat # EmptyName /\ current_state # "SRC_TRANS_SNATPOOL" THEN TRUE
    ELSE IF snat # EmptyName /\ current_state = "SRC_TRANS_SNATPOOL"
            /\ current_snat_pool # snat THEN TRUE
    ELSE FALSE

set_snat(v, snat) ==
    LET current_state == v.snat_type
        current_snat_pool == v.snat_pool
    IN  IF snat = NoName THEN Done(<<>>, FALSE)
        ELSE IF snat = Relative("None") /\ current_state # "SRC_TRANS_NONE"
        THEN Done(<<Write("set_source_address_translation_none", NoName)>>, TRUE)
        ELSE IF snat = Relative("Automap") /\ current_state # "SRC_TRANS_AUTOMAP"
        THEN Done(<<Write("set_source_address_translation_automap", NoName)>>,
                  TRUE)
        ELSE IF snat_settings_need_updating(snat, current_state, current_snat_pool)
        THEN Done(<<Write("set_source_address_translation_snat_pool", snat)>>,
                  FALSE)
        ELSE Done(<<>>, FALSE)

set_pool(v, pool) ==
    IF pool # NoName /\ pool # v.pool
    THEN Done(<<Write("set_default_pool_name", pool)>>, TRUE)
    ELSE Done(<<>>, FALSE)

set_destination(v, destination) ==
    IF destination # NoName /\ destination # v.address
    THEN Done(<<Write("set_destination_v2",
                      [address |-> destination, port |-> v.port])>>, TRUE)
    ELSE Done(<<>>, FALSE)

set_port(v, port) ==
    IF port # NoInt /\ port # v.port
    THEN Done(<<Write("set_destination_v2",
                      [address |-> v.address, port |-> port])>>, TRUE)
    ELSE Done(<<>>, FALSE)

set_state(v, state) ==
    LET st == IF state = "present" THEN "enabled" ELSE state
    IN  IF STATES(st) # v.enabled_state
        THEN Done(<<Write("set_enabled_state", STATES(st))>>, TRUE)
        ELSE Done(<<>>, FALSE)

set_description(v, description) ==
    IF description # NONE /\ v.description # description
    THEN Done(<<Write("set_description", description)>>, TRUE)
    ELSE Done(<<>>, FALSE)

Persistence(name, default) == [profile_name |-> name, default_profile |-> default]

\* a set_default_persistence_profiles that adds the new default before it
\* removes the old one
set_default_persistence_profiles_add_first(v, persistence_profile) ==
    IF persistence_profile = NoName THEN Done(<<>>, FALSE)
    ELSE LET defaults == {x \in v.persistence : x.default_profile}
             default == IF defaults = {} THEN NoName
                        ELSE (CHOOSE x \in defaults : TRUE).profile_name
         IN  Done((IF default # persistence_profile
                   THEN <<Write("add_persistence_profile",
                                <<Persistence(persistence_profile, TRUE)>>)>>
                   ELSE <<>>)
                  \o (IF default # NoName /\ default # persistence_profile
                      THEN <<Write("remove_persistence_profile",
                                   <<Persistence(default, TRUE)>>)>>
                      ELSE <<>>),
                  default # persistence_profile)


set_default_persistence_profiles(v, persistence_profile) ==
    IF persistence_profile = NoName THEN Done(<<>>, FALSE)
    ELSE LET defaults == {x \in v.persistence : x.default_profile}
             default == IF defaults = {} THEN NoName
                        ELSE (CHOOSE x \in defaults : TRUE).profile_name
         IN  Done((IF default # NoName /\ default # persistence_profile
                   THEN <<Write("remove_persistence_profile",
                                <<Persistence(default, TRUE)>>)>>
                   ELSE <<>>)
                  \o (IF default # persistence_profile
                      THEN <<Write("add_persistence_profile",
                                   <<Persistence(persistence_profile, TRUE)>>)>>
                      ELSE <<>>),
                  default # persistence_profile)

set_fallback_persistence_profile(v, persistence_profile) ==
    IF persistence_profile = NoName THEN Done(<<>>, FALSE)
    ELSE LET pp == IF persistence_profile # EmptyName
                   THEN fq_name(persistence_profile) ELSE persistence_profile
         IN  IF v.fallback # pp
             THEN Done(<<Write("set_fallback_persistence_profile", pp)>>, TRUE)
             ELSE Done(<<>>, FALSE)

\* get_route_advertisement_status: result.split("STATE_")[-1].lower()
route_advertisement_status(state) ==
    IF state = "STATE_ENABLED" THEN "enabled"
    ELSE IF state = "STATE_DISABLED" THEN "disabled"
    ELSE NONE

\* "STATE_%s" % route_advertisement_state.strip().upper()
route_state_of(word) ==
    IF word = "enabled" THEN "STATE_ENABLED"
    ELSE IF word = "disabled" THEN "STATE_DISABLED"
    ELSE NONE

set_route_advertisement_state(v, destination, route_advertisement_state) ==
    IF route_advertisement_state = NONE THEN Done(<<>>, FALSE)
    ELSE IF route_advertisement_status(v.route_state) # route_advertisement_state
    THEN Done(<<Write("set_route_advertisement_state",
                      route_state_of(route_advertisement_state))>>, TRUE)
    ELSE Done(<<>>, FALSE)

\* a vs_create without the default profile
vs_create_no_default(name, destination, port, pool, profiles) ==
    Write("create",
          [address |-> destination, port |-> port, protocol |-> "PROTOCOL_TCP",
           pool |-> pool,
           profiles |-> IF profiles.tag = "list" THEN profiles.val ELSE <<>>])

\* vs_create: the profiles and the create call
vs_create(name, destination, port, pool, profiles) ==
    Write("create",
          [address |-> destination, port |-> port, protocol |-> "PROTOCOL_TCP",
           pool |-> pool,
           profiles |-> IF profiles.tag = "list" /\ profiles.val # <<>>
                        THEN profiles.val ELSE <<Relative("tcp")>>])

(***************************************************************************)
(* State of a virtual-server pass (main of _bigip_virtual_server.py) and   *)
(* of the device's virtual server.                                         *)
(***************************************************************************)
VARIABLES
    vparams,    \* module.params
    vcheck,     \* module.check_mode
    vs,         \* the virtual server on the device, as committed
    vtxn,       \* the session's transaction: whether open, the calls queued
    vpc,        \* where the pass is
    vstep,      \* the step of the create or update sequence that is next
    vresult,    \* what the pass ended with
    vcalls,     \* the mutating device calls of this pass, in order
    vmutated,   \* whether a call of this pass changed the device
    vpass,      \* number of this pass
    vprev,      \* how the pass before this one began and ended
    vs0,        \* the virtual server when this pass began
    vraces,     \* actions of another actor so far
    vfaults,    \* failed device calls so far
    vsame       \* whether the interpreter shares equal strings (see Is)

vvars == <<vparams, vcheck, vs, vtxn, vpc, vstep, vresult, vcalls, vmutated,
           vpass, vprev, vs0, vraces, vfaults, vsame>>

vars == <<nvars, vvars>>

\* the values main computes from module.params before the first device call
Locals(params) ==
    [state |-> params.state,
     destination |-> params.destination,
     port |-> params.port,
     all_profiles |-> fq_list_names(params.all_profiles),
     all_policies |-> fq_list_names(params.all_policies),
     all_rules |-> fq_list_names(params.all_rules),
     all_enabled_vlans |->
        IF params.enabled_vlans.tag = "none"
           \/ InList(ALL, params.enabled_vlans.val)
        THEN params.enabled_vlans
        ELSE fq_list_names(params.enabled_vlans),
     pool |-> fq_name(params.pool),
     description |-> params.description,
     snat |-> params.snat,
     route_advertisement_state |-> params.route_advertisement_state,
     default_persistence_profile |->
        fq_name(params.default_persistence_profile),
     fallback_persistence_profile |-> params.fallback_persistence_profile]

\* the set_* calls of main after vs_create, in order
CreateSteps ==
    <<"policies", "enabled vlans", "rules", "snat", "description",
      "default persistence profile", "fallback persistence profile",
      "state", "route advertisement">>

\* the set_* calls of main between start_transaction and submit_transaction
UpdateSteps ==
    <<"destination", "port", "pool", "description", "snat", "profiles",
      "policies", "enabled vlans", "rules", "default persistence profile",
      "fallback persistence profile", "state", "route advertisement">>

\* the set_* function of a step, on the values main passes to it
SetStep(step, v, L, in_txn, same) ==
    CASE step = "destination" -> set_destination(v, fq_name(L.destination))
      [] step = "port" -> set_port(v, L.port)
      [] step = "pool" -> set_pool(v, L.pool)
      [] step = "description" -> set_description(v, L.description)
      [] step = "snat" -> set_snat(v, L.snat)
      [] step = "profiles" -> set_profiles(v, L.all_profiles, in_txn)
      [] step = "policies" -> set_policies(v, L.all_policies)
      [] step = "enabled vlans" ->
            set_enabled_vlans(v, L.all_enabled_vlans, same)
      [] step = "rules" -> set_rules(v, L.all_rules)
      [] step = "default persistence profile" ->
            set_default_persistence_profiles(v, L.default_persistence_profile)
      [] step = "fallback persistence profile" ->
            set_fallback_persistence_profile(v, L.fallback_persistence_profile)
      [] step = "state" -> set_state(v, L.state)
      [] step = "route advertisement" ->
            set_route_advertisement_state(v, L.destination,
                                          L.route_advertisement_state)

\* whether the set_* function of a step calls a get_* of the device: the
\* list, persistence and route functions return before it for None
StepReads(step, L) ==
    CASE step = "profiles" -> L.all_profiles.tag # "none"
      [] step = "policies" -> L.all_policies.tag # "none"
      [] step = "enabled vlans" -> L.all_enabled_vlans.tag # "none"
      [] step = "rules" -> L.all_rules.tag # "none"
      [] step = "default persistence profile" ->
            L.default_persistence_profile # NoName
      [] step = "fallback persistence profile" ->
            L.fallback_persistence_profile # NoName
      [] step = "route advertisement" -> L.route_advertisement_state # NONE
      [] OTHER -> TRUE

\* the get_* of a step fails: the virtual server is not found, or the
\* virtual address of the route advertisement is that of no destination
StepReadFails(step, v, L) ==
    /\ StepReads(step, L)
    /\ \/ ~v.exists
       \/ step = "route advertisement" /\ L.destination = NoName

\* the message of the Exception a set_* function raises on OperationFailed
StepMessage(step) ==
    CASE step = "destination" -> "Error on setting destination"
      [] step = "port" -> "Error on setting port"
      [] step = "pool" -> "Error on setting pool"
      [] step = "description" -> "Error on setting description"
      [] step = "snat" -> "Error on setting snat"
      [] step = "profiles" -> "Error on setting profiles"
      [] step = "policies" -> "Error on setting policies"
      [] step = "enabled vlans" -> "Error on setting enabled vlans"
      [] step = "rules" -> "Error on setting rules"
      [] step = "default persistence profile" ->
            "Error on setting default persistence profile"
      [] step = "fallback persistence profile" ->
            "Error on setting fallback persistence profile"
      [] step = "state" -> "Error on setting state"
      [] step = "route advertisement" -> "Error on setting profiles"

VSRunning == [status |-> "running", changed |-> FALSE, msg |-> NONE,
              wrap |-> NONE]
VSExit(changed) == [status |-> "ok", changed |-> changed, msg |-> NONE,
                    wrap |-> NONE]
\* module.fail_json; wrap is the message main puts before msg
VSFail(wrap, msg) == [status |-> "failed", changed |-> FALSE, msg |-> msg,
                      wrap |-> wrap]

\* an update whose exception is passed on as it is
UpdateUnwrapped == NONE

UpdateWrap == "Error on updating Virtual Server"
CreateWrap == "Error on creating Virtual Server"

NoTxn == [open |-> FALSE, queue |-> <<>>]

(***************************************************************************)
(* The tasks and the virtual servers a pass begins with.  A task names the *)
(* destination and port the virtual server has; beyond that at most        *)
(* MaxFocus groups of parameters and device properties differ from the     *)
(* defaults.                                                               *)
(***************************************************************************)
MaxFocus == 1

D1 == Relative("10.0.0.5")
D2 == Relative("10.0.0.6")
Port1 == <<443>>
Port2 == <<80>>
\* the ends of the port range, and the integers next to them
Port0 == <<0>>
PortMax == <<MaxPort>>
PortBelow == <<0 - 1>>
PortAbove == <<MaxPort + 1>>

\* module.params of a task that names only destination and port
BaseParams ==
    [state |-> "present", destination |-> D1, port |-> Port1,
     all_profiles |-> NoneVal, all_policies |-> NoneVal,
     all_rules |-> NoneVal, enabled_vlans |-> NoneVal, pool |-> NoName,
     description |-> NONE, snat |-> NoName,
     route_advertisement_state |-> NONE,
     default_persistence_profile |-> NoName,
     fallback_persistence_profile |-> NoName]

\* the virtual server vs_create makes for BaseParams
BaseVS ==
    DeviceCreateVS(vs_create(Qualified("vs1"), D1, Port1, NoName, NoneVal).arg)

Merge(r, patch) ==
    [f \in DOMAIN r |-> IF f \in DOMAIN patch THEN patch[f] ELSE r[f]]

Variant(p, d) == [p |-> p, d |-> d]

\* device rules of a list of rule names
DevRules(l) == Range(enumerate(l))

Variants ==
    {Variant([destination |-> x, port |-> y], <<>>) :
        x \in {NoName, D1, D2},
        y \in {NoInt, Port1, Port2, Port0, PortMax, PortBelow, PortAbove}}
    \cup {Variant([pool |-> x], [pool |-> y]) :
        x \in {NoName, Relative("pool1")},
        y \in {EmptyName, Qualified("pool1"), Qualified("pool2")}}
    \cup {Variant([description |-> x], [description |-> y]) :
        x \in {NONE, "d1", ""}, y \in {"", "d1", "d0"}}
    \cup {Variant([snat |-> x], [snat_type |-> y[1], snat_pool |-> y[2]]) :
        x \in {NoName, Relative("None"), Relative("Automap"),
               Qualified("sp1"), Relative("sp1")},
        y \in {<<"SRC_TRANS_NONE", EmptyName>>,
               <<"SRC_TRANS_AUTOMAP", EmptyName>>,
               <<"SRC_TRANS_SNATPOOL", Qualified("sp1")>>,
               <<"SRC_TRANS_SNATPOOL", Qualified("sp2")>>}}
    \cup {Variant([all_profiles |-> x], [profiles |-> y]) :
        x \in {NoneVal, ListVal(<<>>), ListVal(<<Relative("http")>>),
               ListVal(<<Relative("tcp"), Relative("http")>>)},
        y \in {{Qualified("tcp")}, {Qualified("tcp"), Qualified("http")},
               {Qualified("tcp"), Qualified("ssl")},
               {Qualified("tcp"), Qualified("http"), Qualified("ssl")}}}
    \cup {Variant([all_policies |-> x], [policies |-> y]) :
        x \in {NoneVal, ListVal(<<>>), ListVal(<<Relative("pol1")>>)},
        y \in {{}, {Qualified("pol1")}, {Qualified("pol2")}}}
    \cup {Variant([all_rules |-> x], [rules |-> y]) :
        x \in {NoneVal, ListVal(<<>>), ListVal(<<Relative("r1")>>),
               ListVal(<<Relative("r1"), Relative("r2")>>),
               ListVal(<<Relative("r2"), Relative("r1")>>)},
        y \in {{}, DevRules(<<Qualified("r1")>>),
               DevRules(<<Qualified("r1"), Qualified("r2")>>)}}
    \cup {Variant([enabled_vlans |-> x], [vlan |-> y]) :
        x \in {NoneVal, ListVal(<<>>), ListVal(<<ALL>>),
               ListVal(<<Relative("v1")>>),
               ListVal(<<Relative("v1"), Relative("v2")>>)},
        y \in {[state |-> "STATE_DISABLED", vlans |-> {}],
               [state |-> "STATE_DISABLED", vlans |-> {Qualified("v1")}],
               [state |-> "STATE_ENABLED", vlans |-> {}],
               [state |-> "STATE_ENABLED", vlans |-> {Qualified("v1")}],
               [state |-> "STATE_ENABLED",
                vlans |-> {Qualified("v1"), Qualified("v2")}],
               [state |-> "STATE_ENABLED", vlans |-> {Qualified("v3")}]}}
    \cup {Variant([route_advertisement_state |-> x], [route_state |-> y]) :
        x \in {NONE, "enabled", "disabled"},
        y \in {"STATE_ENABLED", "STATE_DISABLED"}}
    \cup {Variant([default_persistence_profile |-> x], [persistence |-> y]) :
        x \in {NoName, Relative("pp1")},
        y \in {{}, {Persistence(Qualified("pp1"), TRUE)},
               {Persistence(Qualified("pp2"), TRUE)},
               {Persistence(Qualified("pp2"), FALSE)}}}
    \cup {Variant([fallback_persistence_profile |-> x], [fallback |-> y]) :
        x \in {NoName, EmptyName, Relative("fp1")},
        y \in {EmptyName, Qualified("fp1"), Qualified("fp2")}}

RECURSIVE Focus(_, _)
\* the tasks of S with up to n more variants applied
Focus(S, n) ==
    IF n = 0 THEN S
    ELSE Focus(S \cup {[params |-> Merge(t.params, x.p),
                        dev |-> Merge(t.dev, x.d)] : t \in S, x \in Variants},
               n - 1)

VSStates == {"present", "enabled", "disabled", "absent"}

VSTasks ==
    {[params |-> [t.params EXCEPT !.state = st],
      dev |-> IF e = NONE THEN NoVS ELSE [t.dev EXCEPT !.enabled_state = e]] :
        t \in Focus({[params |-> BaseParams, dev |-> BaseVS]}, MaxFocus),
        st \in VSStates,
        e \in {NONE, "STATE_ENABLED", "STATE_DISABLED"}}

VSNoPrev == [status |-> NONE, changed |-> FALSE, check |-> FALSE,
             vs0 |-> NoVS, mutated |-> FALSE, calls |-> <<>>]

VSInit ==
    /\ \E t \in VSTasks : vparams = t.params /\ vs = t.dev /\ vs0 = t.dev
    /\ vcheck \in BOOLEAN
    /\ vsame \in BOOLEAN
    /\ vtxn = NoTxn
    /\ vpc = "start"
    /\ vstep = 0
    /\ vresult = VSRunning
    /\ vcalls = <<>>
    /\ vmutated = FALSE
    /\ vpass = 1
    /\ vprev = VSNoPrev
    /\ vraces = 0
    /\ vfaults = 0

(***************************************************************************)
(* The pass: main of _bigip_virtual_server.py, one device call or one      *)
(* set_* function a step.                                                  *)
(***************************************************************************)
\* module.check_mode
module_check_mode == vcheck

VSEnd(result) ==
    /\ vpc' = "done"
    /\ vresult' = result

Prefix(l, n) == SubSeq(l, 1, n)

\* main up to the first mutating call: the port check, vs_exists, and the
\* branches that end the pass at once
VSStart ==
    /\ vpc = "start"
    /\ LET L == Locals(vparams) IN
       IF port_out_of_range(L.port)
       THEN VSEnd(VSFail(NONE, "valid ports must be in range 0 - 65535"))
       ELSE IF L.state = "absent"
       THEN IF module_check_mode THEN VSEnd(VSExit(TRUE))
            ELSE IF vs.exists THEN vpc' = "remove" /\ UNCHANGED vresult
            ELSE VSEnd(VSExit(FALSE))
       ELSE IF ~vs.exists
       THEN IF L.destination \in {NoName, EmptyName} \/ L.port = NoInt
            THEN VSEnd(VSFail(NONE,
                    "both destination and port must be supplied to create a VS"))
            ELSE IF module_check_mode THEN VSEnd(VSExit(TRUE))
            ELSE vpc' = "create" /\ UNCHANGED vresult
       ELSE IF module_check_mode THEN VSEnd(VSExit(TRUE))
            ELSE vpc' = "begin" /\ UNCHANGED vresult
    /\ UNCHANGED <<vparams, vcheck, vs, vtxn, vstep, vcalls, vmutated,
                   vpass, vprev, vs0, vraces, vfaults, vsame>>

\* vs_exists raises what is not "was not found"
VSStartFault ==
    /\ vpc = "start"
    /\ ~port_out_of_range(Locals(vparams).port)
    /\ ~(module_check_mode /\ vparams.state = "absent")
    /\ vfaults < MaxFaults
    /\ vfaults' = vfaults + 1
    /\ VSEnd(VSFail(NONE, "get_object_status: device error"))
    /\ UNCHANGED <<vparams, vcheck, vs, vtxn, vstep, vcalls, vmutated,
                   vpass, vprev, vs0, vraces, vsame>>

\* main, state absent, without the handler of "was not found": every
\* OperationFailed of vs_remove is raised again
remove_result_reraise(raised) ==
    IF raised = NONE THEN [VSExit(TRUE) EXCEPT !.msg = "deleted"]
    ELSE VSFail(NONE, raised)

\* main, state absent, reporting no change after vs_remove returned
remove_result_unchanged(raised) ==
    IF raised = NONE THEN VSExit(FALSE)
    ELSE IF raised = "was not found" THEN VSExit(FALSE)
    ELSE VSFail(NONE, raised)

\* main, state absent: the result after vs_remove returned (raised = NONE)
\* or raised an OperationFailed with the text raised
remove_result(raised) ==
    IF raised = NONE THEN [VSExit(TRUE) EXCEPT !.msg = "deleted"]
    ELSE IF raised = "was not found" THEN VSExit(FALSE)
    ELSE VSFail(NONE, raised)

\* vs_remove, and main's handling of its OperationFailed
VSRemove ==
    /\ vpc = "remove"
    /\ vcalls' = Append(vcalls, Write("delete_virtual_server", NoName))
    /\ \/ /\ vs.exists
          /\ vs' = NoVS
          /\ vmutated' = TRUE
          /\ VSEnd(remove_result(NONE))
          /\ UNCHANGED vfaults
       \/ /\ ~vs.exists
          /\ VSEnd(remove_result("was not found"))
          /\ UNCHANGED <<vs, vmutated, vfaults>>
       \/ /\ vfaults < MaxFaults
          /\ vfaults' = vfaults + 1
          /\ VSEnd(remove_result("delete_virtual_server: device error"))
          /\ UNCHANGED <<vs, vmutated>>
    /\ UNCHANGED <<vparams, vcheck, vtxn, vstep, vpass, vprev, vs0, vraces,
                   vsame>>

\* vs_create
VSCreate ==
    /\ vpc = "create"
    /\ LET L == Locals(vparams)
           w == vs_create(Qualified("vs1"), L.destination, L.port, L.pool,
                          L.all_profiles)
       IN  /\ vcalls' = Append(vcalls, w)
           /\ \/ /\ ~vs.exists
                 /\ vs' = ApplyWrite(vs, w)
                 /\ vmutated' = TRUE
                 /\ vpc' = "cstep"
                 /\ vstep' = 1
                 /\ UNCHANGED <<vresult, vfaults>>
              \/ /\ vs.exists
                 /\ VSEnd(VSFail(CreateWrap, "create: already exists"))
                 /\ UNCHANGED <<vs, vmutated, vstep, vfaults>>
              \/ /\ ~vs.exists
                 /\ vfaults < MaxFaults
                 /\ vfaults' = vfaults + 1
                 /\ VSEnd(VSFail(CreateWrap, "create: device error"))
                 /\ UNCHANGED <<vs, vmutated, vstep>>
    /\ UNCHANGED <<vparams, vcheck, vtxn, vpass, vprev, vs0, vraces, vsame>>

\* one set_* call of the creation sequence; its calls take effect at once
VSCreateStep ==
    /\ vpc = "cstep"
    /\ LET L == Locals(vparams)
           step == CreateSteps[vstep]
           r == SetStep(step, vs, L, FALSE, vsame)
       IN  IF StepReadFails(step, vs, L)
           THEN /\ VSEnd(VSFail(NONE, StepMessage(step)))
                /\ UNCHANGED <<vs, vstep, vcalls, vmutated, vfaults>>
           ELSE \/ /\ vs' = ApplyWrites(vs, r.writes)
                   /\ vcalls' = vcalls \o r.writes
                   /\ vmutated' = (vmutated \/ AnyEffect(vs, r.writes))
                   /\ IF r.err # NONE
                      THEN VSEnd(VSFail(NONE, r.err)) /\ UNCHANGED vstep
                      ELSE IF vstep = Len(CreateSteps)
                      THEN VSEnd(VSExit(TRUE)) /\ UNCHANGED vstep
                      ELSE vstep' = vstep + 1 /\ UNCHANGED <<vpc, vresult>>
                   /\ UNCHANGED vfaults
                \/ \E k \in 1..Len(r.writes) :
                   /\ vfaults < MaxFaults
                   /\ vfaults' = vfaults + 1
                   /\ vs' = ApplyWrites(vs, Prefix(r.writes, k - 1))
                   /\ vcalls' = vcalls \o Prefix(r.writes, k)
                   /\ vmutated' = (vmutated
                                   \/ AnyEffect(vs, Prefix(r.writes, k - 1)))
                   /\ VSEnd(VSFail(NONE, StepMessage(step)))
                   /\ UNCHANGED vstep
    /\ UNCHANGED <<vparams, vcheck, vtxn, vpass, vprev, vs0, vraces, vsame>>

\* api.System.Session.start_transaction()
VSBegin ==
    /\ vpc = "begin"
    /\ vcalls' = Append(vcalls, Write("start_transaction", NoName))
    /\ \/ /\ vtxn' = [open |-> TRUE, queue |-> <<>>]
          /\ vpc' = "ustep"
          /\ vstep' = 1
          /\ UNCHANGED <<vresult, vfaults>>
       \/ /\ vfaults < MaxFaults
          /\ vfaults' = vfaults + 1
          /\ VSEnd(VSFail(UpdateWrap, "start_transaction: device error"))
          /\ UNCHANGED <<vtxn, vstep>>
    /\ UNCHANGED <<vparams, vcheck, vs, vmutated, vpass, vprev, vs0, vraces,
                   vsame>>

\* one set_* call of the update sequence: it reads the virtual server as
\* committed, its calls are queued in the transaction
VSUpdateStep ==
    /\ vpc = "ustep"
    /\ LET L == Locals(vparams)
           step == UpdateSteps[vstep]
           r == SetStep(step, vs, L, TRUE, vsame)
       IN  IF StepReadFails(step, vs, L)
           THEN /\ VSEnd(VSFail(UpdateWrap, StepMessage(step)))
                /\ UNCHANGED <<vtxn, vstep, vcalls, vfaults>>
           ELSE \/ /\ vtxn' = [vtxn EXCEPT !.queue = @ \o r.writes]
                   /\ vcalls' = vcalls \o r.writes
                   /\ IF r.err # NONE
                      THEN VSEnd(VSFail(UpdateWrap, r.err)) /\ UNCHANGED vstep
                      ELSE /\ vresult' = [vresult EXCEPT
                                            !.changed = @ \/ r.updated]
                           /\ IF vstep = Len(UpdateSteps)
                              THEN vpc' = "submit" /\ UNCHANGED vstep
                              ELSE vstep' = vstep + 1 /\ UNCHANGED vpc
                   /\ UNCHANGED vfaults
                \/ \E k \in 1..Len(r.writes) :
                   /\ vfaults < MaxFaults
                   /\ vfaults' = vfaults + 1
                   /\ vtxn' = [vtxn EXCEPT
                                 !.queue = @ \o Prefix(r.writes, k - 1)]
                   /\ vcalls' = vcalls \o Prefix(r.writes, k)
                   /\ VSEnd(VSFail(UpdateWrap, StepMessage(step)))
                   /\ UNCHANGED vstep
    /\ UNCHANGED <<vparams, vcheck, vs, vmutated, vpass, vprev, vs0, vraces,
                   vsame>>

\* api.System.Session.submit_transaction(): the queued calls take effect
\* together, or none of them does
VSSubmit ==
    /\ vpc = "submit"
    /\ vcalls' = Append(vcalls, Write("submit_transaction", NoName))
    /\ \/ /\ vs.exists
          /\ vs' = ApplyWrites(vs, vtxn.queue)
          /\ vmutated' = (vmutated \/ ApplyWrites(vs, vtxn.queue) # vs)
          /\ vtxn' = NoTxn
          /\ VSEnd([vresult EXCEPT !.status = "ok"])
          /\ UNCHANGED vfaults
       \/ /\ ~vs.exists
          /\ vtxn.queue # <<>>
          /\ vtxn' = NoTxn
          /\ VSEnd(VSFail(UpdateWrap, "submit_transaction: was not found"))
          /\ UNCHANGED <<vs, vmutated, vfaults>>
       \/ /\ ~vs.exists
          /\ vtxn.queue = <<>>
          /\ vtxn' = NoTxn
          /\ VSEnd([vresult EXCEPT !.status = "ok"])
          /\ UNCHANGED <<vs, vmutated, vfaults>>
       \/ /\ vfaults < MaxFaults
          /\ vfaults' = vfaults + 1
          /\ vtxn' = NoTxn
          /\ VSEnd(VSFail(UpdateWrap, "submit_transaction: device error"))
          /\ UNCHANGED <<vs, vmutated>>
    /\ UNCHANGED <<vparams, vcheck, vstep, vpass, vprev, vs0, vraces, vsame>>

\* after an undisturbed pass the task is run again, not in check mode, with
\* the same module parameters
VSNextPass ==
    /\ vpc = "done"
    /\ vpass < MaxPasses
    /\ vraces = 0
    /\ vfaults = 0
    /\ vpass' = vpass + 1
    /\ vprev' = [status |-> vresult.status, changed |-> vresult.changed,
                 check |-> vcheck, vs0 |-> vs0, mutated |-> vmutated,
                 calls |-> vcalls]
    /\ vcheck' = FALSE
    /\ vtxn' = NoTxn
    /\ vpc' = "start"
    /\ vstep' = 0
    /\ vresult' = VSRunning
    /\ vcalls' = <<>>
    /\ vmutated' = FALSE
    /\ vs0' = vs
    /\ UNCHANGED <<vparams, vs, vraces, vfaults, vsame>>

\* another actor creates the virtual server, or deletes it
OtherCreatesVS ==
    /\ vpc \notin {"done", "idle"}
    /\ vraces < MaxRaces
    /\ ~vs.exists
    /\ vs' = BaseVS
    /\ vraces' = vraces + 1
    /\ UNCHANGED <<vparams, vcheck, vtxn, vpc, vstep, vresult, vcalls,
                   vmutated, vpass, vprev, vs0, vfaults, vsame>>

OtherDeletesVS ==
    /\ vpc \notin {"done", "idle"}
    /\ vraces < MaxRaces
    /\ vs.exists
    /\ vs' = NoVS
    /\ vraces' = vraces + 1
    /\ UNCHANGED <<vparams, vcheck, vtxn, vpc, vstep, vresult, vcalls,
                   vmutated, vpass, vprev, vs0, vfaults, vsame>>


(***************************************************************************)
(* The two modules run as separate tasks: a specification runs the passes  *)
(* of one of them while the other is at rest.                              *)
(***************************************************************************)
NodeIdle ==
    /\ nparams = [state |-> "absent", monitors |-> NoneVal,
                  monitor_type |-> NONE, quorum |-> NoInt,
                  description |-> NONE, address |-> NONE, fqdn |-> NONE]
    /\ ncheck = FALSE
    /\ want = EmptyParameters
    /\ have = EmptyParameters
    /\ changes = EmptyParameters
    /\ node = NoNode
    /\ npc = "idle"
    /\ nresult = ExitJson(FALSE)
    /\ ncalls = <<>>
    /\ nmutated = FALSE
    /\ res_state = NONE
    /\ npass = MaxPasses
    /\ nprev = NoPrev
    /\ node0 = NoNode
    /\ nraces = 0
    /\ nfaults = 0

VSIdle ==
    /\ vparams = [BaseParams EXCEPT !.state = "absent"]
    /\ vcheck = FALSE
    /\ vs = NoVS
    /\ vtxn = NoTxn
    /\ vpc = "idle"
    /\ vstep = 0
    /\ vresult = VSExit(FALSE)
    /\ vcalls = <<>>
    /\ vmutated = FALSE
    /\ vpass = MaxPasses
    /\ vprev = VSNoPrev
    /\ vs0 = NoVS
    /\ vraces = 0
    /\ vfaults = 0
    /\ vsame = FALSE

NodeTaskInit == NodeInit /\ VSIdle

NodeNext ==
    \/ NodeAbsentExists /\ UNCHANGED vvars
    \/ NodePresentExists /\ UNCHANGED vvars
    \/ NodeRead /\ UNCHANGED vvars
    \/ NodeUpdateOnDevice /\ UNCHANGED vvars
    \/ NodeOfflineOnDevice /\ UNCHANGED vvars
    \/ NodeCreateOnDevice /\ UNCHANGED vvars
    \/ NodeWaitForFqdnChecks /\ UNCHANGED vvars
    \/ NodeSleep /\ UNCHANGED vvars
    \/ NodeCreated /\ UNCHANGED vvars
    \/ NodeRemoveFromDevice /\ UNCHANGED vvars
    \/ NodeRemoved /\ UNCHANGED vvars
    \/ NodeNextPass /\ UNCHANGED vvars
    \/ OtherCreatesNode /\ UNCHANGED vvars
    \/ OtherDeletesNode /\ UNCHANGED vvars
    \/ DeviceFqdnResolved /\ UNCHANGED vvars

SpecNode == NodeTaskInit /\ [][NodeNext]_vars

VSTaskInit == VSInit /\ NodeIdle

VSNext ==
    \/ VSStart /\ UNCHANGED nvars
    \/ VSStartFault /\ UNCHANGED nvars
    \/ VSRemove /\ UNCHANGED nvars
    \/ VSCreate /\ UNCHANGED nvars
    \/ VSCreateStep /\ UNCHANGED nvars
    \/ VSBegin /\ UNCHANGED nvars
    \/ VSUpdateStep /\ UNCHANGED nvars
    \/ VSSubmit /\ UNCHANGED nvars
    \/ VSNextPass /\ UNCHANGED nvars
    \/ OtherCreatesVS /\ UNCHANGED nvars
    \/ OtherDeletesVS /\ UNCHANGED nvars

SpecVS == VSTaskInit /\ [][VSNext]_vars

\* a task of either module
Init == NodeTaskInit \/ VSTaskInit

Next == NodeNext \/ VSNext

Spec == Init /\ [][Next]_vars

(***************************************************************************)
(* Properties.  A pass is undisturbed when no other actor acted and no     *)
(* device call failed; a second pass is only ever run after an undisturbed *)
(* first one, with the same parameters, not in check mode.                 *)
(***************************************************************************)
NodeUndisturbed == nraces = 0 /\ nfaults = 0
VSUndisturbed == vraces = 0 /\ vfaults = 0

\* C1: node idempotence.  When a first pass, not in check mode, with a state
\* other than absent has succeeded, the second pass with the same parameters
\* against the device as the first left it succeeds with changed = false and
\* issues no mutating call.
C1_NodeIdempotence ==
    (/\ npc = "done"
     /\ nparams.state # "absent"
     /\ nprev.status = "ok"
     /\ ~nprev.check
     /\ NodeUndisturbed)
    => /\ nresult.status = "ok"
       /\ ~nresult.changed
       /\ ncalls = <<>>

\* the calls of a pass other than the two that open and submit the
\* transaction
SettingCalls(calls) ==
    SelectSeq(calls, LAMBDA c : c.op \notin {"start_transaction",
                                             "submit_transaction"})

\* C2: virtual-server idempotence.  When a first pass, not in check mode,
\* with state present, enabled or disabled has succeeded, the second pass
\* with the same parameters against the device as the first left it succeeds
\* with changed = false and issues no mutating call (the opening and the
\* submission of the empty transaction not counted).
C2_VSIdempotence ==
    (/\ vpc = "done"
     /\ vparams.state \in {"present", "enabled", "disabled"}
     /\ vprev.status = "ok"
     /\ ~vprev.check
     /\ VSUndisturbed)
    => /\ vresult.status = "ok"
       /\ ~vresult.changed
       /\ SettingCalls(vcalls) = <<>>

\* C3: check mode.  A pass in check mode, of either module, issues no
\* mutating call, opens no transaction, and leaves the device as it was
\* (unless another actor changed it).
C3_CheckModeNoMutation ==
    /\ ncheck => /\ ncalls = <<>>
                 /\ ~nmutated
                 /\ nraces = 0 => node = node0
    /\ vcheck => /\ vcalls = <<>>
                 /\ ~vmutated
                 /\ ~vtxn.open
                 /\ vraces = 0 => vs = vs0

\* a check-mode pass on an existing virtual server has ended reporting a
\* change
C3_Witness ==
    /\ vpc = "done"
    /\ vcheck
    /\ vs.exists
    /\ vparams.state # "absent"
    /\ vresult.status = "ok"
    /\ vresult.changed

\* C4: virtual server, check verdict = real verdict.  When a check-mode pass
\* has succeeded, the pass not in check mode with the same parameters against
\* the same device succeeds with the same changed.
C4_VSCheckVerdict ==
    (/\ vpc = "done"
     /\ vprev.check
     /\ vprev.status = "ok"
     /\ VSUndisturbed)
    => /\ vresult.status = "ok"
       /\ vresult.changed = vprev.changed

\* C5: node, check verdict = real verdict.  With no other actor and no
\* device failure, the pass not in check mode that follows a check-mode pass
\* with the same parameters against the same device ends as the check-mode
\* pass did: the same status, and the same changed.
C5_NodeCheckVerdict ==
    (/\ npc = "done"
     /\ nprev.check
     /\ NodeUndisturbed)
    => /\ nprev.node0 = node0
       /\ nresult.status = nprev.status
       /\ nresult.changed = nprev.changed

\* a check-mode pass reported a change of an existing node, and the pass that
\* made the change has ended
C5_Witness ==
    /\ npc = "done"
    /\ nprev.check
    /\ nprev.changed
    /\ node0.exists
    /\ nparams.state # "absent"
    /\ nmutated
    /\ NodeUndisturbed

\* C6: changed reporting.  An undisturbed pass, not in check mode, that ends
\* without error reports changed = true exactly when one of its device calls
\* changed the device.
C6_ChangedIffMutated ==
    /\ (npc = "done" /\ ~ncheck /\ NodeUndisturbed /\ nresult.status = "ok")
       => (nresult.changed <=> nmutated)
    /\ (vpc = "done" /\ ~vcheck /\ VSUndisturbed /\ vresult.status = "ok")
       => (vresult.changed <=> vmutated)

\* C7: create race.  No pass, of either module, ends in a fatal error
\* because its create call found the resource created by another actor after
\* the existence check.
C7_CreateRaceNotFatal ==
    /\ ~(npc = "done" /\ nresult.status = "failed"
         /\ nresult.msg = "create: already exists")
    /\ ~(vpc = "done" /\ vresult.status = "failed"
         /\ vresult.msg = "create: already exists")

\* C8: virtual-server delete race.  A pass with state absent, not in check
\* mode, that has issued its delete call ends thus: when the call failed
\* with a signature other than "was not found" (the device call that failed
\* in this pass), with a fatal error; when it failed with "was not found"
\* (it deleted nothing), without error and with changed = false; else
\* without error and with changed = true.
C8_VSDeleteRace ==
    (/\ vpc = "done"
     /\ vparams.state = "absent"
     /\ ~vcheck
     /\ Len(vcalls) = 1)
    => IF vfaults > 0
       THEN vresult.status = "failed"
       ELSE IF ~vmutated
       THEN vresult.status = "ok" /\ ~vresult.changed
       ELSE vresult.status = "ok" /\ vresult.changed

\* the virtual server existed at the existence check, another actor deleted
\* it, and the pass has ended after its delete call
C8_Witness ==
    /\ vpc = "done"
    /\ vparams.state = "absent"
    /\ ~vcheck
    /\ vs0.exists
    /\ vraces = 1
    /\ Len(vcalls) = 1
    /\ vcalls[1].op = "delete_virtual_server"
    /\ ~vmutated
    /\ vfaults = 0

\* C9: node delete race.  No pass with state absent ends in a fatal error
\* because the node it found was deleted by another actor before its load or
\* delete call.
C9_NodeDeleteRace ==
    ~(/\ npc = "done"
      /\ nparams.state = "absent"
      /\ nresult.status = "failed"
      /\ nresult.msg = "load: not found")

\* C10: offline at creation.  A create call never carries state user-down;
\* for the desired state offline it carries session user-disabled and state
\* user-up.
C10_CreatePayload ==
    \A i \in DOMAIN ncalls :
        ncalls[i].op = "create"
        => /\ ncalls[i].params.state # "user-down"
           /\ nparams.state = "offline"
              => /\ ncalls[i].params.session = "user-disabled"
                 /\ ncalls[i].params.state = "user-up"

\* the pass took the creation path and its create call has been sent
NodeCreating == ncalls # <<>> /\ ncalls[1].op = "create"

\* C11: offline at creation, call sequence.  A pass that creates a node
\* sends the create call first and once.  Until the existence check after
\* it has returned true no other call is sent; after it, for the desired
\* state offline, exactly one more: the modify call with session
\* user-disabled and state user-down.  A creation that ends without error
\* has sent two calls for offline and one for present, enabled or disabled.
C11_OfflineCreateSequence ==
    NodeCreating
    => /\ \A i \in 2..Len(ncalls) :
             /\ i = 2
             /\ nparams.state = "offline"
             /\ ncalls[i] = Call("modify", OfflinePair)
       /\ npc \in {"create", "wait", "sleep", "created", "offline"} => Len(ncalls) = 1
       /\ (npc = "done" /\ nresult.status = "ok")
          => /\ nresult.changed
             /\ Len(ncalls) = IF nparams.state = "offline" THEN 2 ELSE 1

\* a node has been created offline: the create call, then the modify call
C11_Witness ==
    /\ npc = "done"
    /\ nresult.status = "ok"
    /\ nparams.state = "offline"
    /\ ~node0.exists
    /\ Len(ncalls) = 2
    /\ ncalls[1].op = "create"
    /\ ncalls[2] = Call("modify", OfflinePair)
    /\ node.state = "user-down"

\* C12: monitor validation, single.  A pass whose parameters carry
\* monitor_type single and more than one monitor sends no mutating call and
\* ends in a fatal error, whether the node exists or not.
C12_SingleMonitorValidation ==
    (/\ nparams.state # "absent"
     /\ nparams.monitor_type = "single"
     /\ Len(monitors_list(WantOf(nparams))) > 1)
    => /\ ncalls = <<>>
       /\ npc = "done" => nresult.status = "failed"

\* C13: monitor validation, m_of_n.  A pass whose parameters carry
\* monitor_type m_of_n and no quorum sends no monitor expression to the
\* device and ends in a fatal error, whether the node exists or not.
C13_MOfNQuorumValidation ==
    (/\ nparams.state # "absent"
     /\ nparams.monitor_type = "m_of_n"
     /\ nparams.quorum = NoInt)
    => /\ \A i \in DOMAIN ncalls : ncalls[i].params.monitor.tag = "none"
       /\ npc = "done" => nresult.status = "failed"

\* the parameters name neither address nor fqdn, or both
NodeCreationInvalid ==
    (nparams.address = NONE) <=> (nparams.fqdn = NONE)

\* the parameters lack destination or port
VSCreationInvalid ==
    vparams.destination \in {NoName, EmptyName} \/ vparams.port = NoInt

\* C14: creation validation.  With parameters that are invalid for creation
\* no create call is ever sent.  A pass, in check mode or not, with a state
\* other than absent that finds the resource missing ends in the validation
\* error without a call when the parameters are invalid; otherwise creation
\* proceeds: the create call is sent, or in check mode changed = true is
\* reported.
C14_CreationValidation ==
    /\ (nparams.state # "absent" /\ NodeCreationInvalid)
       => \A i \in DOMAIN ncalls : ncalls[i].op # "create"
    /\ (npc = "done" /\ nparams.state # "absent" /\ ~node0.exists
        /\ NodeUndisturbed)
       => IF NodeCreationInvalid
          THEN /\ nresult.status = "failed"
               /\ nresult.msg =
                     IF nparams.address = NONE
                     THEN "At least one of 'address' or 'fqdn' is required when creating a node"
                     ELSE "Only one of 'address' or 'fqdn' can be provided when creating a node"
               /\ ncalls = <<>>
          ELSE IF ncheck
          THEN nresult = ExitJson(TRUE) /\ ncalls = <<>>
          ELSE NodeCreating
    /\ (vparams.state # "absent" /\ VSCreationInvalid)
       => \A i \in DOMAIN vcalls : vcalls[i].op # "create"
    /\ (vpc = "done" /\ vparams.state # "absent" /\ ~vs0.exists
        /\ VSUndisturbed)
       => IF VSCreationInvalid
          THEN /\ vresult.status = "failed"
               /\ vresult.msg =
                     "both destination and port must be supplied to create a VS"
               /\ vcalls = <<>>
          ELSE IF vcheck
          THEN vresult = VSExit(TRUE) /\ vcalls = <<>>
          ELSE vcalls # <<>> /\ vcalls[1].op = "create"

\* a check-mode pass for a missing node with both address and fqdn has ended
\* in the validation error
C14_Witness ==
    /\ npc = "done"
    /\ ncheck
    /\ ~node0.exists
    /\ nparams.state # "absent"
    /\ nparams.address # NONE
    /\ nparams.fqdn # NONE
    /\ nresult.status = "failed"
    /\ ncalls = <<>>

\* the port is absent or within 0..65535
PortValid(port) == port = NoInt \/ port[1] \in 0..MaxPort

\* C15: port range.  A pass whose port is an integer outside 0..65535 sends
\* no call and ends with the failure "valid ports must be in range
\* 0 - 65535"; no call carries a port outside 0..65535.
C15_PortRange ==
    /\ ~PortValid(vparams.port)
       => /\ vcalls = <<>>
          /\ vpc = "done"
             => vresult = VSFail(NONE, "valid ports must be in range 0 - 65535")
    /\ \A i \in DOMAIN vcalls :
          vcalls[i].op \in {"create", "set_destination_v2"}
          => PortValid(vcalls[i].arg.port)

\* the pass took the update path: its first call opened the transaction
VSUpdating == vcalls # <<>> /\ vcalls[1].op = "start_transaction"

\* C16: update transaction.  In an update pass start_transaction is the
\* first call and submit_transaction, when sent, the last, sent only after
\* every update step has returned.  Until the pass has ended none of its
\* calls has changed the device.  A pass that fails, at a step or at the
\* submission, has changed nothing on the device and fails with the error
\* "Error on updating Virtual Server"; a pass that succeeds has sent
\* submit_transaction.
C16_UpdateTransaction ==
    VSUpdating
    => /\ \A i \in 2..Len(vcalls) :
             /\ vcalls[i].op \notin {"start_transaction", "create",
                                     "delete_virtual_server"}
             /\ vcalls[i].op = "submit_transaction"
                => /\ i = Len(vcalls)
                   /\ vstep = Len(UpdateSteps)
                   /\ vpc = "done"
       /\ vpc # "done"
          => /\ ~vmutated
             /\ vraces = 0 => vs = vs0
       /\ (vpc = "done" /\ vresult.status = "failed")
          => /\ vresult.wrap = "Error on updating Virtual Server"
             /\ ~vmutated
             /\ vraces = 0 => vs = vs0
       /\ (vpc = "done" /\ vresult.status = "ok")
          => /\ vcalls[Len(vcalls)].op = "submit_transaction"
             /\ vraces = 0 => vs = ApplyWrites(vs0, SettingCalls(vcalls))

\* an update pass has failed at a step after another call of it was queued:
\* the device is as it was
C16_Witness ==
    /\ vpc = "done"
    /\ VSUpdating
    /\ vresult.status = "failed"
    /\ vresult.wrap = "Error on updating Virtual Server"
    /\ vtxn.queue # <<>>
    /\ vfaults = 1
    /\ vraces = 0
    /\ vs = vs0
    /\ ApplyWrites(vs0, vtxn.queue) # vs0

\* the device calls of a step of the creation sequence
StepOps(step) ==
    CASE step = "policies" -> {"remove_content_policy", "add_content_policy"}
      [] step = "enabled vlans" -> {"set_vlan"}
      [] step = "rules" -> {"remove_rule", "add_rule"}
      [] step = "snat" -> {"set_source_address_translation_none",
                           "set_source_address_translation_automap",
                           "set_source_address_translation_snat_pool"}
      [] step = "description" -> {"set_description"}
      [] step = "default persistence profile" ->
            {"remove_persistence_profile", "add_persistence_profile"}
      [] step = "fallback persistence profile" ->
            {"set_fallback_persistence_profile"}
      [] step = "state" -> {"set_enabled_state"}
      [] step = "route advertisement" -> {"set_route_advertisement_state"}

\* the pass took the creation path and its create call has succeeded
VSCreated == vcalls # <<>> /\ vcalls[1].op = "create" /\ vstep >= 1

\* the calls after create are those of the creation steps 1..k, in the order
\* of the steps
InStepOrder(calls, k) ==
    /\ \A i \in 2..Len(calls) :
          \E j \in 1..k : calls[i].op \in StepOps(CreateSteps[j])
    /\ \A i, j \in 2..Len(calls) :
          i < j => \E a, b \in 1..k :
                      /\ a <= b
                      /\ calls[i].op \in StepOps(CreateSteps[a])
                      /\ calls[j].op \in StepOps(CreateSteps[b])

\* C17: creation partial failure.  After create the calls of a creation are
\* those of the steps policies, enabled vlans, rules, snat, description,
\* default persistence profile, fallback persistence profile, state, route
\* advertisement, in this order, none of them a transaction or a delete
\* call.  When step k fails the pass ends in a fatal error whose message
\* names step k, no call of a later step has been sent, and the virtual
\* server is as the calls before the failed one left it.
C17_CreatePartialFailure ==
    VSCreated
    => /\ InStepOrder(vcalls, IF vpc = "done" /\ vresult.status = "ok"
                              THEN Len(CreateSteps) ELSE vstep)
       /\ ~vtxn.open
       /\ (vpc = "done" /\ vresult.status = "failed")
          => /\ vresult.msg = "Error on setting " \o CreateSteps[vstep]
             /\ vraces = 0
                => vs = ApplyWrites(vs0, Prefix(vcalls, Len(vcalls) - 1))

\* C18: create.  A pass, not in check mode, with state present, a
\* destination and a port of the range, that finds no virtual server and is
\* not disturbed, sends exactly one create call, the first call of the pass,
\* with protocol TCP and the profiles specified, or the single profile tcp
\* when none is specified, and reports changed = true.
C18_CreateScenario ==
    (/\ vpc = "done"
     /\ ~vcheck
     /\ vparams.state = "present"
     /\ ~VSCreationInvalid
     /\ PortValid(vparams.port)
     /\ ~vs0.exists
     /\ VSUndisturbed)
    => /\ vresult.status = "ok"
       /\ vresult.changed
       /\ Cardinality({i \in DOMAIN vcalls : vcalls[i].op = "create"}) = 1
       /\ vcalls[1].op = "create"
       /\ vcalls[1].arg.protocol = "PROTOCOL_TCP"
       /\ vcalls[1].arg.address = vparams.destination
       /\ vcalls[1].arg.port = vparams.port
       /\ vcalls[1].arg.profiles =
             IF vparams.all_profiles.tag = "none"
                \/ vparams.all_profiles.val = <<>>
             THEN <<Relative("tcp")>>
             ELSE fq_list_names(vparams.all_profiles).val

\* a virtual server has been created for a task that names no profile
C18_Witness ==
    /\ vpc = "done"
    /\ ~vcheck
    /\ vparams.state = "present"
    /\ vparams.all_profiles = NoneVal
    /\ ~vs0.exists
    /\ VSUndisturbed
    /\ vresult.status = "ok"
    /\ vresult.changed
    /\ vcalls[1].op = "create"
    /\ vcalls[1].arg.profiles = <<Relative("tcp")>>
    /\ vs.exists
    /\ vs.profiles = {Qualified("tcp")}

\* C19: absent.  A pass with state absent, not in check mode, of either
\* module sends at most one call, a delete call, never a create or a modify
\* call.  Undisturbed, it ends without a call and with changed = false when
\* the resource does not exist, and with one delete call, changed = true and
\* the resource gone when it exists.
C19_Absent ==
    /\ (nparams.state = "absent" /\ ~ncheck)
       => /\ \A i \in DOMAIN ncalls : i = 1 /\ ncalls[i].op = "delete"
          /\ (npc = "done" /\ NodeUndisturbed)
             => IF node0.exists
                THEN /\ Len(ncalls) = 1
                     /\ nresult = ExitJson(TRUE)
                     /\ ~node.exists
                ELSE /\ ncalls = <<>>
                     /\ nresult = ExitJson(FALSE)
                     /\ ~node.exists
    /\ (vparams.state = "absent" /\ ~vcheck)
       => /\ \A i \in DOMAIN vcalls :
                i = 1 /\ vcalls[i].op = "delete_virtual_server"
          /\ (vpc = "done" /\ VSUndisturbed)
             => IF vs0.exists
                THEN /\ Len(vcalls) = 1
                     /\ vresult.status = "ok"
                     /\ vresult.changed
                     /\ ~vs.exists
                ELSE /\ vcalls = <<>>
                     /\ vresult = VSExit(FALSE)
                     /\ ~vs.exists

\* an existing virtual server has been deleted by a pass with state absent
C19_Witness ==
    /\ vpc = "done"
    /\ vparams.state = "absent"
    /\ ~vcheck
    /\ VSUndisturbed
    /\ vs0.exists
    /\ vcalls = <<Write("delete_virtual_server", NoName)>>
    /\ vresult.changed
    /\ ~vs.exists

\* C20: verification failure (node).  When the existence check after the
\* create call finds no node the pass ends with "Failed to create the node"
\* and sends no further call; when the existence check after the delete call
\* finds the node the pass ends with "Failed to delete the node.".  A pass
\* that ended so reports a failure, not changed = true, and has sent the one
\* call only.  (While a new fqdn node is in state fqdn-checking the pass
\* refreshes it before the existence check, and a node deleted meanwhile
\* ends the pass with the error of the refresh.)
C20_VerificationFailure ==
    /\ [](nresult.msg \in {"Failed to create the node",
                           "Failed to delete the node."}
          => /\ npc = "done"
             /\ nresult.status = "failed"
             /\ ~nresult.changed
             /\ Len(ncalls) = 1
             /\ ncalls[1].op = IF nresult.msg = "Failed to create the node"
                               THEN "create" ELSE "delete")
    /\ [][/\ (npc = "created" /\ npc' # npc /\ ~node.exists)
             => /\ npc' = "done"
                /\ nresult' = FailJson("Failed to create the node")
                /\ ncalls' = ncalls
          /\ (npc = "removed" /\ npc' # npc /\ node.exists)
             => /\ npc' = "done"
                /\ nresult' = FailJson("Failed to delete the node.")
                /\ ncalls' = ncalls]_vars

\* the node was deleted by this pass and created again by another actor
\* before the existence check
C20_Witness ==
    /\ npc = "done"
    /\ nparams.state = "absent"
    /\ nresult = FailJson("Failed to delete the node.")
    /\ ncalls = <<Call("delete", NoParams)>>
    /\ nmutated
    /\ nraces = 1
    /\ node.exists

(***************************************************************************)
(* The list parameters of a virtual server: the module parameter, the step *)
(* of main that applies it, the device property it manages and the         *)
(* mutating calls of that property.                                        *)
(***************************************************************************)
ListFields == {"all_profiles", "all_policies", "all_rules", "enabled_vlans"}

ListStep(f) ==
    CASE f = "all_profiles" -> "profiles"
      [] f = "all_policies" -> "policies"
      [] f = "all_rules" -> "rules"
      [] f = "enabled_vlans" -> "enabled vlans"

ListProperty(f) ==
    CASE f = "all_profiles" -> "profiles"
      [] f = "all_policies" -> "policies"
      [] f = "all_rules" -> "rules"
      [] f = "enabled_vlans" -> "vlan"

ListOps(f) ==
    CASE f = "all_profiles" -> {"remove_profile", "add_profile"}
      [] f = "all_policies" -> {"remove_content_policy", "add_content_policy"}
      [] f = "all_rules" -> {"remove_rule", "add_rule"}
      [] f = "enabled_vlans" -> {"set_vlan"}

\* C21: in an update pass whose profiles, policies, rules or enabled VLANs
\* parameter is None, the set_* function of that property issues no call
\* and returns False whatever the device holds, no call of the property is
\* made or queued, and without another actor the device keeps its value.
C21_UnmanagedLists ==
    \A f \in ListFields :
        (VSUpdating /\ vparams[f] = NoneVal) =>
            /\ \A i \in DOMAIN vcalls : vcalls[i].op \notin ListOps(f)
            /\ \A i \in DOMAIN vtxn.queue : vtxn.queue[i].op \notin ListOps(f)
            /\ vraces = 0 => vs[ListProperty(f)] = vs0[ListProperty(f)]
            /\ LET r == SetStep(ListStep(f), vs, Locals(vparams), TRUE, vsame)
               IN  r.writes = <<>> /\ ~r.updated /\ r.err = NONE

\* an update pass ended unchanged on a virtual server that holds a policy
\* the task does not name
C21_Witness ==
    /\ vpc = "done"
    /\ VSUpdating
    /\ VSUndisturbed
    /\ vresult.status = "ok"
    /\ ~vresult.changed
    /\ vparams.all_policies = NoneVal
    /\ vs0.policies # {}
    /\ vs.policies = vs0.policies


\* the pass took the update path: read_current_from_device has run
NodeUpdating == have # EmptyParameters

\* addresses and names a task may carry for a node
AnyAddresses == {NONE, "10.0.0.1", "10.0.0.2", "any6"}
AnyFqdns == {NONE, "a.example", "b.example"}

\* C22: no modify call of a node pass carries address or fqdn; an update
\* pass without another actor leaves the node's address and fqdn as they
\* were; and what the update path computes (changes, whether anything
\* changed, the error) is the same for every address and fqdn the task
\* could carry in place of its own.
C22_AddressImmutable ==
    /\ \A i \in DOMAIN ncalls :
          ncalls[i].op = "modify" =>
             ncalls[i].params.address = NONE /\ ncalls[i].params.fqdn = NONE
    /\ (NodeUpdating /\ nraces = 0) =>
          node.address = node0.address /\ node.fqdn = node0.fqdn
    /\ (npc = "read" /\ node.exists) =>
          \A a \in AnyAddresses, f \in AnyFqdns :
             LET r == update_changed_options(want, HaveOf(node))
                 s == update_changed_options(
                         [want EXCEPT !.address = a, !.fqdn = f], HaveOf(node))
             IN  s.changes = r.changes /\ s.result = r.result /\ s.err = r.err

\* an update pass has modified a node whose address and fqdn both differ
\* from the task's, and the node keeps its own
C22_Witness ==
    /\ npc = "done"
    /\ NodeUpdating
    /\ nresult = ExitJson(TRUE)
    /\ ncalls # <<>>
    /\ ncalls[1].op = "modify"
    /\ node.exists
    /\ nparams.address = "10.0.0.1"
    /\ node.address = "10.0.0.2"
    /\ nparams.fqdn = "a.example"
    /\ node.fqdn = NONE


(***************************************************************************)
(* Termination.  The module is one sequential process: a step of the pass  *)
(* that can be taken is taken, and every device call returns or raises.    *)
(* Nothing obliges another actor to act or the device to resolve a name.   *)
(***************************************************************************)
NodePassStep ==
    /\ \/ NodeAbsentExists
       \/ NodePresentExists
       \/ NodeRead
       \/ NodeUpdateOnDevice
       \/ NodeOfflineOnDevice
       \/ NodeCreateOnDevice
       \/ NodeWaitForFqdnChecks
       \/ NodeSleep
       \/ NodeCreated
       \/ NodeRemoveFromDevice
       \/ NodeRemoved
    /\ UNCHANGED vvars

\* the tasks without monitor parameters, begun on a device without the node
NodeCreationInit ==
    /\ NodeTaskInit
    /\ ~node.exists
    /\ nparams.monitors = NoneVal
    /\ nparams.monitor_type = NONE
    /\ nparams.quorum = NoInt

SpecNodeFair ==
    NodeCreationInit /\ [][NodeNext]_vars /\ WF_vars(NodePassStep)

\* C23: every node pass eventually ends, with a result that is changed,
\* unchanged or a fatal error, whatever the device does; in particular a
\* creation that polls a node in state fqdn-checking.
C23_Termination ==
    <>(npc = "done" /\ nresult.status \in {"ok", "failed"})


(***************************************************************************)
(* The lifecycle rule of Difference.state, on every pair of a session and  *)
(* a state the device reports: tasks that name only a state (and, for a    *)
(* creation, an address or fqdn), on a device whose node is in any pair.   *)
(***************************************************************************)
ObservedSessions == {"user-enabled", "user-disabled", "monitor-enabled"}
ObservedStates == {"user-up", "user-down", "up"}

LifecycleNodes ==
    {[exists |-> TRUE, monitor |-> <<W("default")>>, description |-> NONE,
      session |-> s, state |-> st, address |-> "10.0.0.1", fqdn |-> NONE] :
        s \in ObservedSessions, st \in ObservedStates}

LifecycleInit ==
    /\ nparams \in NodeParams
    /\ nparams.monitors = NoneVal
    /\ nparams.monitor_type = NONE
    /\ nparams.quorum = NoInt
    /\ nparams.description = NONE
    /\ ncheck \in BOOLEAN
    /\ node \in {NoNode} \cup LifecycleNodes
    /\ NodeTask(nparams, node)
    /\ want = WantOf(nparams)
    /\ have = EmptyParameters
    /\ changes = EmptyParameters
    /\ npc = "start"
    /\ nresult = Running
    /\ ncalls = <<>>
    /\ nmutated = FALSE
    /\ res_state = NONE
    /\ npass = 1
    /\ nprev = NoPrev
    /\ node0 = node
    /\ nraces = 0
    /\ nfaults = 0
    /\ VSIdle

SpecNodeLifecycle == LifecycleInit /\ [][NodeNext]_vars

\* the (session, state) pair of a logical state, as create() sends it
TargetPair(state) ==
    LET w == munge_creation_state_for_device(
                 [EmptyParameters EXCEPT !.state = state])
    IN  [session |-> w.session, state |-> w.state]

\* C24: lifecycle transition rule.  In an update pass with desired state
\* present, enabled, disabled or offline, the changes carry a (session,
\* state) pair exactly when the observed pair differs from the target pair
\* of the desired state, and the pair they carry is the target pair.
C24_LifecycleTransition ==
    (NodeUpdating /\ nresult.status # "failed") =>
        LET obs == [session |-> have.session, state |-> have.state]
            tgt == TargetPair(nparams.state)
            emitted == [session |-> changes.session, state |-> changes.state]
        IN  /\ emitted # NoPair <=> obs # tgt
            /\ emitted # NoPair => emitted = tgt


\* a monitor expression that names no monitor
EmptyExpression(m) == m.tag # "none" /\ findall_names(m.val) = <<>>

\* C25: empty monitor list inherits.  In an update pass whose monitors
\* parameter is None or the empty list and whose monitor_type is set, no
\* modify call carries a monitor expression without monitors, and without
\* another actor the node keeps the monitors it was observed with.
C25_EmptyMonitorsInherit ==
    (/\ NodeUpdating
     /\ nparams.monitors \in {NoneVal, ListVal(<<>>)}
     /\ nparams.monitor_type # NONE)
    => /\ \A i \in DOMAIN ncalls :
             ncalls[i].op = "modify" => ~EmptyExpression(ncalls[i].params.monitor)
       /\ nraces = 0 => node.monitor = node0.monitor


\* the messages of the F5ModuleErrors that Difference raises about monitors
MonitorValidationErrors ==
    {"Quorum value must be specified with monitor_type 'm_of_n'.",
     "When using a 'monitor_type' of 'single', only one monitor may be provided.",
     "A single monitor must be specified if more than one monitor currently exists on your pool.",
     "The 'monitors' parameter cannot be empty when 'monitor_type' parameter is specified"}

\* C26: monitor type inheritance.  In an update pass whose monitor_type
\* parameter is unspecified the changes carry no monitor_type and the pass
\* does not end in a monitor validation error, whatever expression the node
\* is observed with and whether or not a quorum is given.
C26_MonitorTypeInherited ==
    (NodeUpdating /\ nparams.monitor_type = NONE) =>
        /\ changes.monitor_type = NONE
        /\ nresult.msg \notin MonitorValidationErrors


\* a monitor expression of the form 'min N of { ... }'
MinOfExpression(m) == m.tag = "str" /\ search_min_of(m.val)

\* C27: single is client-side only.  In a pass whose monitor_type parameter
\* is single the changes never record the monitor_type single, and neither
\* the changes nor a call to the device carry a 'min N of' expression.
C27_SingleClientSide ==
    nparams.monitor_type = "single" =>
        /\ changes.monitor_type # "single"
        /\ ~MinOfExpression(monitors(changes))
        /\ \A i \in DOMAIN ncalls : ~MinOfExpression(ncalls[i].params.monitor)


\* C28: ambiguous downgrade.  An update pass whose monitor_type is single
\* and whose monitors parameter is None or the empty list ends, on a node
\* observed with more than one monitor, in the fatal error of the
\* downgrade without a call to the device; on a node observed with at most
\* one monitor it ends in no monitor validation error.
C28_AmbiguousDowngrade ==
    (/\ NodeUpdating
     /\ nparams.monitor_type = "single"
     /\ nparams.monitors \in {NoneVal, ListVal(<<>>)})
    => IF Len(monitors_list(have)) > 1
       THEN /\ npc = "done"
            /\ nresult = FailJson("A single monitor must be specified if more than one monitor currently exists on your pool.")
            /\ ncalls = <<>>
            /\ ~nmutated
       ELSE nresult.msg \notin MonitorValidationErrors

\* the downgrade to single was refused on a node that has two monitors
C28_Witness ==
    /\ npc = "done"
    /\ NodeUpdating
    /\ nparams.monitor_type = "single"
    /\ nparams.monitors = NoneVal
    /\ Len(monitors_list(have)) = 2
    /\ nresult.status = "failed"
    /\ nresult.msg \in MonitorValidationErrors
    /\ node = node0


\* the previous pass created the node: the device holds what it rendered
CreatedBefore ==
    npass = 2 /\ nprev.calls # <<>> /\ nprev.calls[1].op = "create"

\* C29: monitor round trip, node kind.  When a pass has created the node
\* from a list of monitors and the next pass reads the node back, the observed
\* monitors_list is the list of the fully qualified names; for m_of_n with
\* quorum N the observed monitor_type is m_of_n and the observed quorum is
\* N; for and_list the observed monitor_type is and_list and the observed
\* quorum is None.
C29_MonitorRoundTrip ==
    (/\ CreatedBefore
     /\ NodeUpdating
     /\ nparams.monitors.tag = "list"
     /\ nparams.monitors.val # <<>>) =>
        LET l == [i \in 1..Len(nparams.monitors.val) |->
                     fqdn_name(nparams.monitors.val[i])]
        IN  /\ monitors_list(have) = l
            /\ (nparams.monitor_type = "m_of_n" /\ nparams.quorum # NoInt) =>
                  /\ monitor_type(have) = "m_of_n"
                  /\ quorum(have) = nparams.quorum
            /\ nparams.monitor_type = "and_list" =>
                  /\ monitor_type(have) = "and_list"
                  /\ quorum(have) = NoInt


\* the members a list of writes passes to the call op (none: no such call)
WriteMembers(ws, op) ==
    UNION {Range(ws[i].arg) : i \in {j \in DOMAIN ws : ws[j].op = op}}

\* the calls of ws that belong to the list parameter f, in order
ListCalls(ws, f) == SelectSeq(ws, LAMBDA w : w.op \in ListOps(f))

\* the sets of profiles and of policies a virtual server is observed with
ObservedProfileSets ==
    SUBSET {Qualified("tcp"), Qualified("http"), Qualified("ssl")}
ObservedPolicySets == SUBSET {Qualified("pol1"), Qualified("pol2")}

\* C30: profile and policy diff.  For the list L_d of the task and every
\* observed set L_o, set_profiles and set_policies add exactly the members
\* of L_d that are not in L_o and remove exactly the members of L_o that
\* are not in L_d, but never the profile /Common/tcp; the removal comes
\* before the addition and the two leave L_d (and /Common/tcp if it was
\* observed); when there is nothing to add or remove no call is issued.
\* An undisturbed update pass issues these calls for the lists it found
\* and leaves the virtual server with that result.
C30_ProfilePolicyDiff ==
    LET L == Locals(vparams)
        Pd == Range(L.all_profiles.val)
        Qd == Range(L.all_policies.val)
        ended == /\ vpc = "done"
                 /\ VSUpdating
                 /\ VSUndisturbed
                 /\ vresult.status = "ok"
    IN  /\ L.all_profiles.tag = "list" =>
           /\ \A o \in ObservedProfileSets :
                 LET v == [BaseVS EXCEPT !.profiles = o]
                     r == set_profiles(v, L.all_profiles, TRUE)
                     to_add == WriteMembers(r.writes, "add_profile")
                     to_remove == WriteMembers(r.writes, "remove_profile")
                 IN  /\ to_add = Pd \ o
                     /\ to_remove = (o \ Pd) \ {ProtectedProfile}
                     /\ Len(r.writes) = (IF to_remove = {} THEN 0 ELSE 1)
                                        + (IF to_add = {} THEN 0 ELSE 1)
                     /\ (Len(r.writes) = 2) => r.writes[1].op = "remove_profile"
                     /\ (to_add = {} /\ to_remove = {}) => ~r.updated
                     /\ ApplyWrites(v, r.writes).profiles
                           = Pd \cup (o \cap {ProtectedProfile})
           /\ ended =>
                 /\ ListCalls(vcalls, "all_profiles")
                       = set_profiles(vs0, L.all_profiles, TRUE).writes
                 /\ vs.profiles = Pd \cup (vs0.profiles \cap {ProtectedProfile})
        /\ L.all_policies.tag = "list" =>
           /\ \A o \in ObservedPolicySets :
                 LET v == [BaseVS EXCEPT !.policies = o]
                     r == set_policies(v, L.all_policies)
                     to_add == WriteMembers(r.writes, "add_content_policy")
                     to_remove == WriteMembers(r.writes, "remove_content_policy")
                 IN  /\ to_add = Qd \ o
                     /\ to_remove = o \ Qd
                     /\ Len(r.writes) = (IF to_remove = {} THEN 0 ELSE 1)
                                        + (IF to_add = {} THEN 0 ELSE 1)
                     /\ (Len(r.writes) = 2) =>
                           r.writes[1].op = "remove_content_policy"
                     /\ (to_add = {} /\ to_remove = {}) => ~r.updated
                     /\ ApplyWrites(v, r.writes).policies = Qd
           /\ ended =>
                 /\ ListCalls(vcalls, "all_policies")
                       = set_policies(vs0, L.all_policies).writes
                 /\ vs.policies = Qd

\* an update pass has removed the profile ssl and added the profile http,
\* and the virtual server holds http and the profile tcp it never named
C30_Witness ==
    /\ vpc = "done"
    /\ VSUpdating
    /\ VSUndisturbed
    /\ vresult.status = "ok"
    /\ vparams.all_profiles = ListVal(<<Relative("http")>>)
    /\ vs0.profiles = {Qualified("tcp"), Qualified("ssl")}
    /\ WriteMembers(vcalls, "remove_profile") = {Qualified("ssl")}
    /\ WriteMembers(vcalls, "add_profile") = {Qualified("http")}
    /\ vs.profiles = {Qualified("tcp"), Qualified("http")}


\* the sets of (priority, name) rules a virtual server is observed with
ObservedRuleSets ==
    SUBSET {[priority |-> i, rule_name |-> Qualified(n)] :
               i \in 0..1, n \in {"r1", "r2"}}

\* the pass has ended well, undisturbed, after creating or updating the
\* virtual server
VSApplied ==
    /\ vpc = "done"
    /\ VSUndisturbed
    /\ vresult.status = "ok"
    /\ VSUpdating \/ VSCreated

\* C31: rule diff.  For the rule list L_d of the task (not None) the desired
\* rules are the pairs (i, L_d[i]), i counted from zero.  For every observed
\* set of pairs, set_rules removes exactly the observed pairs that are no
\* desired pair and adds exactly the desired pairs that are not observed,
\* and the two calls leave the set of desired pairs; when the observed names
\* are the desired names at other priorities the diff is not empty and
\* set_rules returns True.  An undisturbed pass that creates or updates the
\* virtual server issues these calls and leaves it with the desired pairs.
C31_RuleDiff ==
    LET L == Locals(vparams)
        Ld == L.all_rules.val
        Rd == {[priority |-> i - 1, rule_name |-> Ld[i]] : i \in DOMAIN Ld}
    IN  L.all_rules.tag = "list" =>
           /\ \A o \in ObservedRuleSets :
                 LET v == [BaseVS EXCEPT !.rules = o]
                     r == set_rules(v, L.all_rules)
                     to_add == WriteMembers(r.writes, "add_rule")
                     to_remove == WriteMembers(r.writes, "remove_rule")
                 IN  /\ to_add = Rd \ o
                     /\ to_remove = o \ Rd
                     /\ r.updated = (r.writes # <<>>)
                     /\ r.err = NONE
                     /\ ApplyWrites(v, r.writes).rules = Rd
                     /\ ({x.rule_name : x \in o} = {x.rule_name : x \in Rd}
                         /\ o # Rd)
                        => r.writes # <<>> /\ r.updated
           /\ VSApplied =>
                 /\ ListCalls(vcalls, "all_rules")
                       = set_rules(IF VSUpdating THEN vs0 ELSE BaseVS,
                                   L.all_rules).writes
                 /\ vs.rules = Rd

\* an update pass has put the two rules of a virtual server in the other
\* order: it removed both pairs and added both at their new priorities
C31_Witness ==
    /\ VSApplied
    /\ VSUpdating
    /\ vparams.all_rules = ListVal(<<Relative("r2"), Relative("r1")>>)
    /\ vs0.rules = DevRules(<<Qualified("r1"), Qualified("r2")>>)
    /\ WriteMembers(vcalls, "remove_rule") = vs0.rules
    /\ vresult.changed
    /\ vs.rules = DevRules(<<Qualified("r2"), Qualified("r1")>>)


\* the device restricts the virtual server's VLANs: the restriction is
\* enabled, or the list has members
Restricted(v) == v.vlan.state = "STATE_ENABLED" \/ v.vlan.vlans # {}

\* the task's enabled VLANs are a list that holds ALL
WantsAllVlans ==
    /\ vparams.enabled_vlans.tag = "list"
    /\ InList(ALL, vparams.enabled_vlans.val)

\* the one call that lifts the restriction
LiftRestriction ==
    Write("set_vlan", [state |-> "STATE_DISABLED", vlans |-> <<>>])

\* C32: VLAN transition to the wildcard.  In an undisturbed update pass
\* whose enabled VLANs hold ALL: when the device restricts the VLANs (state
\* enabled, or a list with members) the pass issues exactly one set_vlan
\* call, with state disabled and no member, the property reports a change
\* and so does the pass; when the device is unrestricted with an empty list
\* the pass issues no VLAN call and the property reports no change.
C32_VlanToWildcard ==
    (VSApplied /\ VSUpdating /\ WantsAllVlans) =>
        LET r == set_enabled_vlans(vs0, Locals(vparams).all_enabled_vlans,
                                   vsame)
            calls == ListCalls(vcalls, "enabled_vlans")
        IN  IF Restricted(vs0)
            THEN /\ calls = <<LiftRestriction>>
                 /\ r.updated
                 /\ vresult.changed
            ELSE /\ calls = <<>>
                 /\ ~r.updated


\* the task's enabled VLANs are a list with members, ALL not among them
WantsVlanList ==
    /\ vparams.enabled_vlans.tag = "list"
    /\ vparams.enabled_vlans.val # <<>>
    /\ ~InList(ALL, vparams.enabled_vlans.val)

\* the VLAN filter the pass found: that of the virtual server it updates,
\* or that of the virtual server it has just created
ObservedVlan == IF VSUpdating THEN vs0.vlan ELSE NoVS.vlan

\* C33: VLAN transition away from the wildcard.  In an undisturbed pass
\* whose enabled VLANs are a non-empty list without ALL, on a device whose
\* restriction state is disabled, the pass issues one set_vlan call with
\* state enabled and the desired members, the property reports a change and
\* so does a pass that updates, and afterwards the device restricts the
\* virtual server to the desired VLANs.
C33_VlanFromWildcard ==
    (VSApplied /\ WantsVlanList /\ ObservedVlan.state = "STATE_DISABLED") =>
        LET Ld == Locals(vparams).all_enabled_vlans
            r == set_enabled_vlans([BaseVS EXCEPT !.vlan = ObservedVlan],
                                   Ld, vsame)
        IN  /\ ListCalls(vcalls, "enabled_vlans")
                  = <<Write("set_vlan", [state |-> "STATE_ENABLED",
                                         vlans |-> Ld.val])>>
            /\ r.updated
            /\ VSUpdating => vresult.changed
            /\ vs.vlan = [state |-> "STATE_ENABLED", vlans |-> Range(Ld.val)]


\* C34: VLAN member diff.  In an undisturbed update pass whose enabled
\* VLANs are a list L_d without ALL, on a device that restricts the virtual
\* server to the members L_o, a set_vlan call is issued if and only if L_d
\* and L_o differ as sets, and afterwards the device restricts the virtual
\* server to exactly L_d; so a list that names fewer VLANs than the device
\* holds causes a call.
C34_VlanMemberDiff ==
    (/\ VSApplied
     /\ VSUpdating
     /\ vparams.enabled_vlans.tag = "list"
     /\ ~InList(ALL, vparams.enabled_vlans.val)
     /\ vs0.vlan.state = "STATE_ENABLED") =>
        LET Ld == Range(Locals(vparams).all_enabled_vlans.val)
            Lo == vs0.vlan.vlans
        IN  /\ (ListCalls(vcalls, "enabled_vlans") # <<>>) <=> (Ld # Lo)
            /\ vs.vlan = [state |-> "STATE_ENABLED", vlans |-> Ld]


\* the changes of the pass set the lifecycle to offline
ChangesSetOffline ==
    changes.session = "user-disabled" /\ changes.state = "user-down"

\* C35: offline fixup on update.  In an update pass not in check mode the
\* modify call with (user-disabled, user-down) that follows the call with
\* the changes is issued only when the changes set the lifecycle to
\* offline: a pass with state offline on a node observed as (user-disabled,
\* user-down) that differs in another property issues the call with the
\* changes and no other.
C35_OfflineFixup ==
    (NodeUpdating /\ ~ncheck) =>
        \A i \in DOMAIN ncalls :
            (i >= 2 /\ ncalls[i] = Call("modify", OfflinePair))
            => ChangesSetOffline


\* the task names a destination address other than the one observed
DestinationDiffers ==
    /\ vparams.destination # NoName
    /\ fq_name(vparams.destination) # vs0.address

\* the task names a port other than the one observed
PortDiffers == vparams.port # NoInt /\ vparams.port # vs0.port

\* C36: destination and port together.  After an undisturbed update pass
\* that was committed, on a virtual server whose address and port both
\* differ from those of the task, the device's destination holds the
\* address and the port of the task.
C36_DestinationAndPort ==
    (VSApplied /\ VSUpdating /\ DestinationDiffers /\ PortDiffers) =>
        /\ vs.address = fq_name(vparams.destination)
        /\ vs.port = vparams.port


\* the remove call and the add call of each property that has the two
RemoveAddOps ==
    {<<"remove_rule", "add_rule">>,
     <<"remove_profile", "add_profile">>,
     <<"remove_content_policy", "add_content_policy">>,
     <<"remove_persistence_profile", "add_persistence_profile">>}

\* no two rules of v have the same priority, and at most one persistence
\* profile of v is the default
NoClash(v) ==
    /\ \A x, y \in v.rules : x.priority = y.priority => x = y
    /\ Cardinality({x \in v.persistence : x.default_profile}) <= 1

\* C37: remove before add.  In one pass the remove call and the add call of
\* the rules, of the profiles, of the policies and of the default
\* persistence profile are each issued at most once, the remove call before
\* the add call.  At no point does the device hold two rules of one
\* priority or two default persistence profiles: not as the calls of a
\* creation take effect one by one, and not as the queued calls of an
\* update take effect in their order.
C37_RemoveBeforeAdd ==
    /\ \A p \in RemoveAddOps :
          LET rem == {i \in DOMAIN vcalls : vcalls[i].op = p[1]}
              add == {i \in DOMAIN vcalls : vcalls[i].op = p[2]}
          IN  /\ Cardinality(rem) <= 1
              /\ Cardinality(add) <= 1
              /\ \A i \in rem, j \in add : i < j
    /\ NoClash(vs)
    /\ \A k \in 0..Len(vtxn.queue) :
          NoClash(ApplyWrites(vs, Prefix(vtxn.queue, k)))

\* an update pass has replaced the default persistence profile: it removed
\* the old default, then added the new one
C37_Witness ==
    /\ VSApplied
    /\ VSUpdating
    /\ vs0.persistence = {Persistence(Qualified("pp2"), TRUE)}
    /\ \E i, j \in DOMAIN vcalls :
          /\ i < j
          /\ vcalls[i] = Write("remove_persistence_profile",
                               <<Persistence(Qualified("pp2"), TRUE)>>)
          /\ vcalls[j] = Write("add_persistence_profile",
                               <<Persistence(Qualified("pp1"), TRUE)>>)
    /\ vs.persistence = {Persistence(Qualified("pp1"), TRUE)}

=============================================================================
